---- MODULE Spec2Model ----
(***************************************************************************)
(* SAP-IT server connection manager (sap_it_rust).                         *)
(*                                                                         *)
(* The module models the blocking orchestrator ConnectionManager           *)
(* (connection.rs) as it is driven by direct_connect and                   *)
(* simple_interactive_mode (main.rs), the platform operations it calls     *)
(* (platform/unix.rs, platform/windows.rs) and the Ctrl+C handler that     *)
(* sets the shared shutdown flag, and the interactive controller tui::App  *)
(* (tui/app.rs) with its key handlers (tui/event.rs) as it is driven by    *)
(* run_tui_loop.                                                           *)
(*                                                                         *)
(* Strings are sequences of one-character strings, so that split('@'),     *)
(* to_lowercase and parse::<usize> are computed character by character.    *)
(* Time is counted in whole seconds.                                       *)
(***************************************************************************)
EXTENDS Integers, Sequences, FiniteSets, TLC

(***************************************************************************)
(* Bounds of the model                                                     *)
(***************************************************************************)
\* largest settings.vpn_timeout_secs tried
MaxVpnTimeout == 3
\* largest settings.ping_retries tried
MaxRetries == 3

(***************************************************************************)
(* Program constants                                                       *)
(***************************************************************************)
\* poll_interval = Duration::from_secs(2)
PollInterval == 2

VARIABLES
    entry,          \* the branch of run(): "direct" | "simple" | "tui"
    platform,       \* the build: "unix" (cfg(not(windows))) | "windows"
    settings,       \* config.settings
    pc,             \* position of the main thread
    server,         \* ConnectionManager.server (NoServer before it is created)
    mode,           \* conn_type passed to connect()
    handler,        \* setup_shutdown_handler has installed the Ctrl+C handler
    shutdown,       \* shutdown_flag
    vpn_connected,  \* ConnectionManager.vpn_connected
    elapsed,        \* start.elapsed() of wait_for_vpn_connection, in seconds
    attempt,        \* loop variable of check_host_reachable
    chr_for,        \* caller of check_host_reachable: "rdp" | "ssh"
    chr_start,      \* history: Len(calls) when check_host_reachable was entered
    rdp_child,      \* the Option<Child> held by connect(): TRUE = Some
    rdp_running,    \* a launched RDP client process has not exited yet
    rdp_client,     \* the program platform::start_rdp spawned ("none" so far)
    ret,            \* outcome of the attempt ("none" while running)
    calls,          \* history: platform calls, sleeps and signals, in order
    app             \* tui::App, the state of the interactive controller

vars == <<entry, platform, settings, pc, server, mode, handler, shutdown,
          vpn_connected, elapsed, attempt, chr_for, chr_start, rdp_child,
          rdp_running, rdp_client, ret, calls, app>>

(***************************************************************************)
(* Strings                                                                 *)
(***************************************************************************)
Digits == {"0", "1", "2", "3", "4", "5", "6", "7", "8", "9"}

DigitVal(c) ==
    CASE c = "0" -> 0 [] c = "1" -> 1 [] c = "2" -> 2 [] c = "3" -> 3
      [] c = "4" -> 4 [] c = "5" -> 5 [] c = "6" -> 6 [] c = "7" -> 7
      [] c = "8" -> 8 [] c = "9" -> 9

\* char::to_lowercase on the letters the model uses
LowerChar(c) ==
    CASE c = "A" -> "a" [] c = "B" -> "b" [] c = "C" -> "c" [] c = "D" -> "d"
      [] c = "H" -> "h" [] c = "O" -> "o" [] c = "P" -> "p" [] c = "R" -> "r"
      [] c = "S" -> "s" [] c = "T" -> "t"
      [] OTHER -> c

\* str::to_lowercase
ToLowercase(s) == [i \in 1..Len(s) |-> LowerChar(s[i])]

None == [some |-> FALSE, val |-> <<>>]
Some(v) == [some |-> TRUE, val |-> v]

\* str::parse::<usize>: a non-empty run of decimal digits
RECURSIVE DecimalValue(_)
DecimalValue(s) ==
    IF s = <<>> THEN 0
    ELSE 10 * DecimalValue(SubSeq(s, 1, Len(s) - 1)) + DigitVal(s[Len(s)])

ParseUsize(s) ==
    IF s # <<>> /\ \A i \in 1..Len(s) : s[i] \in Digits
    THEN Some(DecimalValue(s))
    ELSE None

\* positions of '@' in s
AtPositions(s) == {i \in 1..Len(s) : s[i] = "@"}

Min(S) == CHOOSE x \in S : \A y \in S : x <= y

\* s.split('@').nth(1): the piece between the first and the second '@'
\* (to the end of the string when there is no second one)
SplitAtNth1(s) ==
    LET ats == AtPositions(s) IN
    IF ats = {} THEN None
    ELSE LET first == Min(ats)
             rest  == {i \in ats : i > first}
             last  == IF rest = {} THEN Len(s) ELSE Min(rest) - 1
         IN Some(SubSeq(s, first + 1, last))

(***************************************************************************)
(* config.rs: Server                                                       *)
(***************************************************************************)
\* Server::has_ssh
has_ssh(s) == IF s.ssh.some THEN s.ssh.val # <<>> ELSE FALSE

\* Server::ssh_string
ssh_string(s) == IF s.ssh.some /\ s.ssh.val # <<>> THEN Some(s.ssh.val) ELSE None

\* Server::ssh_ip
ssh_ip(s) ==
    IF ssh_string(s).some THEN SplitAtNth1(ssh_string(s).val) ELSE None

NoServer == [name |-> <<>>, ssh |-> None, rdp |-> <<>>, vpn |-> <<>>]

\* The catalog the runs are checked with: one target per shape of the ssh
\* field (well-formed, absent, empty, without '@', with two '@').
Servers ==
    << [name |-> <<"A">>, ssh |-> Some(<<"u", "@", "h">>),
        rdp |-> <<"r", "1">>, vpn |-> <<"V", "1">>],
       [name |-> <<"b">>, ssh |-> None,
        rdp |-> <<"r", "2">>, vpn |-> <<"V", "2">>],
       [name |-> <<"1">>, ssh |-> Some(<<>>),
        rdp |-> <<"r", "3">>, vpn |-> <<"V", "3">>],
       [name |-> <<"c">>, ssh |-> Some(<<"u", "h">>),
        rdp |-> <<"r", "4">>, vpn |-> <<"V", "4">>],
       [name |-> <<"d">>, ssh |-> Some(<<"u", "@", "h", "@", "x">>),
        rdp |-> <<"r", "5">>, vpn |-> <<"V", "5">>] >>

\* Settings the runs are checked with (vpn_timeout_secs, ping_timeout_ms,
\* ping_retries are plain integers read from the configuration file).
SettingsSet ==
    [vpn_timeout_secs : {1, MaxVpnTimeout},
     ping_timeout_ms  : {500, 4000},
     ping_retries     : 1..MaxRetries]

(***************************************************************************)
(* connection.rs: ConnectionType                                           *)
(***************************************************************************)
ConnectionTypes == {"Rdp", "Ssh", "Both"}

(***************************************************************************)
(* platform/unix.rs, platform/windows.rs                                   *)
(***************************************************************************)
Platforms == {"unix", "windows"}

\* platform::connect_vpn. cmd_ok: the VPN command could be run and succeeded.
\* unix: every outcome of nmcli ends in Ok(()); windows: a failed spawn of
\* rasphone is returned as Err.
connect_vpn(plat, cmd_ok) ==
    IF plat = "unix" THEN "Ok"
    ELSE IF cmd_ok THEN "Ok" ELSE "Err"

\* platform::disconnect_vpn, likewise
disconnect_vpn(plat, cmd_ok) ==
    IF plat = "unix" THEN "Ok"
    ELSE IF cmd_ok THEN "Ok" ELSE "Err"

\* How long one ping may block, in seconds. unix: ping -W with
\* (timeout_ms / 1000.0).max(1.0) as u32; windows: ping -w timeout_ms.
PingWait(plat, timeout_ms) ==
    IF plat = "unix"
    THEN (IF timeout_ms \div 1000 >= 1 THEN timeout_ms \div 1000 ELSE 1)
    ELSE (timeout_ms + 999) \div 1000

\* a list of clients that prefers rdesktop
RdpClientsRdesktopFirst(plat) ==
    IF plat = "unix" THEN <<"rdesktop", "xfreerdp", "xfreerdp3">>
    ELSE <<"mstsc.exe">>

\* The remote-desktop clients platform::start_rdp tries, in order
RdpClients(plat) ==
    IF plat = "unix" THEN <<"xfreerdp", "xfreerdp3", "rdesktop">>
    ELSE <<"mstsc.exe">>

\* platform::start_rdp: the first client of the list that can be spawned
\* (avail: the programs that can be spawned), "none" for Err
start_rdp(plat, avail) ==
    LET cs  == RdpClients(plat)
        hit == {i \in 1..Len(cs) : cs[i] \in avail}
    IN IF hit = {} THEN "none" ELSE cs[Min(hit)]

RdpPrograms == {"xfreerdp", "xfreerdp3", "rdesktop", "mstsc.exe"}

(***************************************************************************)
(* The history of platform calls                                           *)
(***************************************************************************)
Call(op, arg, ok) == [op |-> op, arg |-> arg, ok |-> ok]

Logged(c) == calls' = Append(calls, c)

(***************************************************************************)
(* tui/app.rs: App                                                         *)
(*                                                                         *)
(* The controller is one record; every method of App is an operator from   *)
(* the record before the call to the record after it.  Indices are 0-based *)
(* as in the source.  status_log is display-only and is left out; the      *)
(* field calls records the platform calls of the current attempt (repeated *)
(* identical pings once), and panicked records an out-of-range access.     *)
(***************************************************************************)
\* Bounds of the interactive runs
MaxServers == 3
MaxFieldLen == 1
MaxScroll == 1
TuiVpnTimeout == 1

NoneOf(d) == [some |-> FALSE, val |-> d]

NoAction == [some |-> FALSE, kind |-> "", index |-> 0]
Action(kind, index) == [some |-> TRUE, kind |-> kind, index |-> index]

EditServerFields(name, rdp, ssh, vpn) ==
    [name |-> name, rdp |-> rdp, ssh |-> ssh, vpn |-> vpn]

\* The catalog the interactive runs start with
TuiServers ==
    << [name |-> <<"A">>, ssh |-> Some(<<"s">>), rdp |-> <<"r">>, vpn |-> <<"V">>],
       [name |-> <<"b">>, ssh |-> None, rdp |-> <<"q">>, vpn |-> <<"W">>] >>

\* App::new
NewApp(servers) ==
    [ servers            |-> servers,
      screen             |-> "ServerList",
      prev_screen        |-> NoneOf(""),
      selected_server    |-> 0,
      selected_conn_type |-> 0,
      connection_status  |-> "Idle",
      should_quit        |-> FALSE,
      connected_server   |-> NoneOf(0),
      connected_vpn      |-> None,
      connection_start   |-> NoneOf(0),
      confirm_action     |-> NoAction,
      confirm_selection  |-> 0,
      edit_server_fields |-> EditServerFields(<<>>, <<>>, <<>>, <<>>),
      edit_mode          |-> FALSE,
      edit_field_index   |-> 0,
      input_buffer       |-> <<>>,
      cursor_position    |-> 0,
      settings_scroll    |-> 0,
      help_scroll        |-> 0,
      panicked           |-> FALSE,
      calls              |-> <<>> ]

\* A platform call made by the controller
AppCall(a, c) ==
    [a EXCEPT !.calls = IF c.op = "ping" /\ @ # <<>> /\ @[Len(@)] = c
                        THEN @ ELSE Append(@, c)]

\* An index or a cursor outside its vector: the thread panics
Panic(a) == [a EXCEPT !.panicked = TRUE]

\* App::current_server
current_server(a) ==
    IF a.selected_server < Len(a.servers)
    THEN Some(a.servers[a.selected_server + 1])
    ELSE NoneOf(NoServer)

\* App::selected_connection_type
selected_connection_type(a) ==
    CASE a.selected_conn_type = 0 -> "Rdp"
      [] a.selected_conn_type = 1 -> "Ssh"
      [] a.selected_conn_type = 2 -> "Both"
      [] OTHER -> "Rdp"

\* App::available_connection_types
available_connection_types(a) ==
    IF current_server(a).some /\ has_ssh(current_server(a).val)
    THEN <<"Rdp", "Ssh", "Both">>
    ELSE <<"Rdp">>

\* App::go_to_screen
go_to_screen(a, screen) ==
    [a EXCEPT !.prev_screen = Some(a.screen), !.screen = screen]

\* App::go_back
go_back(a) ==
    IF a.prev_screen.some
    THEN [a EXCEPT !.screen = a.prev_screen.val, !.prev_screen = NoneOf("")]
    ELSE a

\* App::load_field_to_input
load_field_to_input(a) ==
    LET f   == a.edit_server_fields
        buf == CASE a.edit_field_index = 0 -> f.name
                 [] a.edit_field_index = 1 -> f.rdp
                 [] a.edit_field_index = 2 -> f.ssh
                 [] a.edit_field_index = 3 -> f.vpn
                 [] OTHER -> <<>>
    IN [a EXCEPT !.input_buffer = buf, !.cursor_position = Len(buf)]

\* App::save_current_field
save_current_field(a) ==
    CASE a.edit_field_index = 0 ->
           [a EXCEPT !.edit_server_fields.name = a.input_buffer]
      [] a.edit_field_index = 1 ->
           [a EXCEPT !.edit_server_fields.rdp = a.input_buffer]
      [] a.edit_field_index = 2 ->
           [a EXCEPT !.edit_server_fields.ssh = a.input_buffer]
      [] a.edit_field_index = 3 ->
           [a EXCEPT !.edit_server_fields.vpn = a.input_buffer]
      [] OTHER -> a

\* App::select_previous
select_previous(a) ==
    CASE a.screen = "ServerList" ->
           IF a.selected_server > 0
           THEN [a EXCEPT !.selected_server = @ - 1]
           ELSE IF a.servers # <<>>
                THEN [a EXCEPT !.selected_server = Len(a.servers) - 1]
                ELSE a
      [] a.screen = "ConnectionTypeSelect" ->
           IF a.selected_conn_type > 0
           THEN [a EXCEPT !.selected_conn_type = @ - 1]
           ELSE [a EXCEPT !.selected_conn_type =
                              Len(available_connection_types(a)) - 1]
      [] a.screen = "Confirm" ->
           [a EXCEPT !.confirm_selection = IF @ = 0 THEN 1 ELSE 0]
      [] a.screen = "EditServer" ->
           IF a.edit_field_index > 0
           THEN load_field_to_input([a EXCEPT !.edit_field_index = @ - 1])
           ELSE a
      [] a.screen = "Help" ->
           [a EXCEPT !.help_scroll = IF @ > 0 THEN @ - 1 ELSE 0]
      [] a.screen = "Settings" ->
           [a EXCEPT !.settings_scroll = IF @ > 0 THEN @ - 1 ELSE 0]
      [] OTHER -> a

\* App::select_next
select_next(a) ==
    CASE a.screen = "ServerList" ->
           IF a.servers # <<>>
           THEN [a EXCEPT !.selected_server = (@ + 1) % Len(a.servers)]
           ELSE a
      [] a.screen = "ConnectionTypeSelect" ->
           [a EXCEPT !.selected_conn_type =
                        (@ + 1) % Len(available_connection_types(a))]
      [] a.screen = "Confirm" ->
           [a EXCEPT !.confirm_selection = IF @ = 0 THEN 1 ELSE 0]
      [] a.screen = "EditServer" ->
           IF a.edit_field_index < 3
           THEN load_field_to_input([a EXCEPT !.edit_field_index = @ + 1])
           ELSE a
      [] a.screen = "Help" -> [a EXCEPT !.help_scroll = @ + 1]
      [] a.screen = "Settings" -> [a EXCEPT !.settings_scroll = @ + 1]
      [] OTHER -> a

\* a start that records the first catalog entry as the server of the session
start_connection_first(a, cmd_ok) ==
    IF current_server(a).some
    THEN LET srv == current_server(a).val
             r   == connect_vpn(platform, cmd_ok)
             b   == go_to_screen(
                      [a EXCEPT !.connection_status = "ConnectingVpn",
                                !.connection_start = Some(0),
                                !.connected_vpn = Some(srv.vpn),
                                !.connected_server = Some(0),
                                !.calls = <<Call("connectVPN", srv.vpn, r = "Ok")>>],
                      "Connecting")
         IN IF r = "Err"
            THEN [b EXCEPT !.connection_status = "Error(VPN error)"]
            ELSE [b EXCEPT !.connection_status = "WaitingForVpn"]
    ELSE a

\* App::start_connection. cmd_ok: the VPN command could be run.
start_connection(a, cmd_ok) ==
    IF current_server(a).some
    THEN LET srv == current_server(a).val
             r   == connect_vpn(platform, cmd_ok)
             b   == go_to_screen(
                      [a EXCEPT !.connection_status = "ConnectingVpn",
                                !.connection_start = Some(0),
                                !.connected_vpn = Some(srv.vpn),
                                !.connected_server = Some(a.selected_server),
                                !.calls = <<Call("connectVPN", srv.vpn, r = "Ok")>>],
                      "Connecting")
         IN IF r = "Err"
            THEN [b EXCEPT !.connection_status = "Error(VPN error)"]
            ELSE [b EXCEPT !.connection_status = "WaitingForVpn"]
    ELSE a

\* a disconnect that leaves connection_status as it was
disconnect_keep_status(a, cmd_ok) ==
    LET b == IF a.connected_vpn.some
             THEN AppCall([a EXCEPT !.connected_vpn = None],
                          Call("disconnectVPN", a.connected_vpn.val,
                               disconnect_vpn(platform, cmd_ok) = "Ok"))
             ELSE a
    IN [b EXCEPT !.connected_server = NoneOf(0),
                 !.connection_start = NoneOf(0),
                 !.screen = "ServerList"]

\* App::disconnect
disconnect(a, cmd_ok) ==
    LET b == IF a.connected_vpn.some
             THEN AppCall([a EXCEPT !.connected_vpn = None],
                          Call("disconnectVPN", a.connected_vpn.val,
                               disconnect_vpn(platform, cmd_ok) = "Ok"))
             ELSE a
    IN [b EXCEPT !.connected_server = NoneOf(0),
                 !.connection_start = NoneOf(0),
                 !.connection_status = "Idle",
                 !.screen = "ServerList"]

\* a removal that drops the last element whatever the index
RemoveLast(s, index) == SubSeq(s, 1, Len(s) - 1)

\* vec.remove(index) on a sequence indexed from 0
RemoveAt(s, index) ==
    [i \in 1..(Len(s) - 1) |-> IF i <= index THEN s[i] ELSE s[i + 1]]

\* a save that writes the edited server over the first catalog entry
save_server_first(a) ==
    LET b      == save_current_field(a)
        f      == b.edit_server_fields
        newsrv == [name |-> f.name, rdp |-> f.rdp,
                   ssh |-> IF f.ssh = <<>> THEN None ELSE Some(f.ssh),
                   vpn |-> f.vpn]
    IN IF b.edit_mode
       THEN IF b.servers # <<>>
            THEN [b EXCEPT !.servers[1] = newsrv]
            ELSE Panic(b)
       ELSE [b EXCEPT !.servers = Append(@, newsrv),
                      !.selected_server = Len(b.servers)]

\* App::save_server
save_server(a) ==
    LET b      == save_current_field(a)
        f      == b.edit_server_fields
        newsrv == [name |-> f.name, rdp |-> f.rdp,
                   ssh |-> IF f.ssh = <<>> THEN None ELSE Some(f.ssh),
                   vpn |-> f.vpn]
    IN IF b.edit_mode
       THEN IF b.selected_server < Len(b.servers)
            THEN [b EXCEPT !.servers[b.selected_server + 1] = newsrv]
            ELSE Panic(b)
       ELSE [b EXCEPT !.servers = Append(@, newsrv),
                      !.selected_server = Len(b.servers)]

\* a confirmation whose DeleteServer arm leaves selected_server as it is
confirm_dialog_no_adjust(a, cmd_ok) ==
    LET act == a.confirm_action
        b   == [a EXCEPT !.confirm_action = NoAction]
        c   == IF a.confirm_selection = 1 /\ act.some
               THEN CASE act.kind = "DeleteServer" ->
                           IF act.index < Len(b.servers)
                           THEN [b EXCEPT !.servers = RemoveAt(@, act.index)]
                           ELSE Panic(b)
                      [] act.kind = "Disconnect" -> disconnect(b, cmd_ok)
                      [] act.kind = "Quit" ->
                           [disconnect(b, cmd_ok) EXCEPT !.should_quit = TRUE]
               ELSE a
    IN IF c.panicked THEN c ELSE go_back([c EXCEPT !.confirm_action = NoAction])

\* App::confirm_selection, the arm of Screen::Confirm
confirm_dialog(a, cmd_ok) ==
    LET act == a.confirm_action
        b   == [a EXCEPT !.confirm_action = NoAction]
        c   == IF a.confirm_selection = 1 /\ act.some
               THEN CASE act.kind = "DeleteServer" ->
                           IF act.index < Len(b.servers)
                           THEN LET d == [b EXCEPT !.servers = RemoveAt(@, act.index)]
                                IN IF d.selected_server >= Len(d.servers)
                                      /\ d.selected_server > 0
                                   THEN [d EXCEPT !.selected_server = @ - 1]
                                   ELSE d
                           ELSE Panic(b)
                      [] act.kind = "Disconnect" -> disconnect(b, cmd_ok)
                      [] act.kind = "Quit" ->
                           [disconnect(b, cmd_ok) EXCEPT !.should_quit = TRUE]
               ELSE a
    IN IF c.panicked THEN c ELSE go_back([c EXCEPT !.confirm_action = NoAction])

\* a selection on ServerList that keeps the connection type of the last session
confirm_selection_keep_type(a, cmd_ok) ==
    CASE a.screen = "ServerList" ->
           IF current_server(a).some
           THEN IF has_ssh(current_server(a).val)
                THEN go_to_screen(a, "ConnectionTypeSelect")
                ELSE start_connection(a, cmd_ok)
           ELSE a
      [] a.screen = "ConnectionTypeSelect" -> start_connection(a, cmd_ok)
      [] a.screen = "Confirm" -> confirm_dialog(a, cmd_ok)
      [] a.screen = "Connected" ->
           go_to_screen([a EXCEPT !.confirm_action = Action("Disconnect", 0),
                                  !.confirm_selection = 0], "Confirm")
      [] OTHER -> a

\* App::confirm_selection
confirm_selection(a, cmd_ok) ==
    CASE a.screen = "ServerList" ->
           IF current_server(a).some
           THEN IF has_ssh(current_server(a).val)
                THEN go_to_screen([a EXCEPT !.selected_conn_type = 0],
                                  "ConnectionTypeSelect")
                ELSE start_connection([a EXCEPT !.selected_conn_type = 0], cmd_ok)
           ELSE a
      [] a.screen = "ConnectionTypeSelect" -> start_connection(a, cmd_ok)
      [] a.screen = "Confirm" -> confirm_dialog(a, cmd_ok)
      [] a.screen = "EditServer" ->
           LET b == save_current_field(a) IN
           IF b.edit_field_index < 3
           THEN load_field_to_input([b EXCEPT !.edit_field_index = @ + 1])
           ELSE LET c == save_server(b)
                IN IF c.panicked THEN c ELSE go_to_screen(c, "ServerList")
      [] a.screen = "Connected" ->
           go_to_screen([a EXCEPT !.confirm_action = Action("Disconnect", 0),
                                  !.confirm_selection = 0], "Confirm")
      [] OTHER -> a

\* App::update_connection. ok: the ping is answered; now: seconds since
\* connection_start when the tick ends; avail: the programs that can be spawned.
update_connection(a, ok, now, avail) ==
    CASE a.connection_status = "WaitingForVpn" ->
           IF current_server(a).some
           THEN LET b == AppCall(a, Call("ping", current_server(a).val.rdp, ok))
                IN IF ok
                   THEN [b EXCEPT !.connection_status = "StartingSession"]
                   ELSE IF b.connection_start.some
                        THEN IF now > settings.vpn_timeout_secs
                             THEN [b EXCEPT !.connection_status =
                                              "Error(VPN connection timeout)",
                                            !.connection_start = Some(now)]
                             ELSE [b EXCEPT !.connection_start = Some(now)]
                        ELSE b
           ELSE a
      [] a.connection_status = "StartingSession" ->
           IF current_server(a).some
           THEN LET srv == current_server(a).val
                    ty  == selected_connection_type(a)
                    b   == IF ty \in {"Rdp", "Both"}
                           THEN AppCall(a, Call("launchRDP", srv.rdp,
                                                start_rdp(platform, avail) # "none"))
                           ELSE a
                IN [b EXCEPT !.connection_status = "Connected",
                             !.screen = "Connected"]
           ELSE a
      [] OTHER -> a

\* a quit request that never asks for confirmation
request_quit_now(a) ==
    [a EXCEPT !.should_quit = TRUE]

\* App::request_quit
request_quit(a) ==
    IF a.connected_server.some
    THEN go_to_screen([a EXCEPT !.confirm_action = Action("Quit", 0),
                                !.confirm_selection = 0], "Confirm")
    ELSE [a EXCEPT !.should_quit = TRUE]

\* App::add_server
add_server(a) ==
    go_to_screen(
      load_field_to_input(
        [a EXCEPT !.edit_mode = FALSE,
                  !.edit_server_fields = EditServerFields(<<>>, <<>>, <<>>, <<>>),
                  !.edit_field_index = 0]),
      "EditServer")

\* App::edit_selected_server
edit_selected_server(a) ==
    IF current_server(a).some
    THEN LET srv == current_server(a).val IN
         go_to_screen(
           load_field_to_input(
             [a EXCEPT !.edit_mode = TRUE,
                       !.edit_server_fields =
                          EditServerFields(srv.name, srv.rdp,
                             IF srv.ssh.some THEN srv.ssh.val ELSE <<>>, srv.vpn),
                       !.edit_field_index = 0]),
           "EditServer")
    ELSE a

\* App::delete_selected_server
delete_selected_server(a) ==
    IF a.servers # <<>>
    THEN go_to_screen(
           [a EXCEPT !.confirm_action = Action("DeleteServer", a.selected_server),
                     !.confirm_selection = 0], "Confirm")
    ELSE a

\* String::insert(idx, c) and String::remove(idx), idx counted from 0
InsertAt(s, idx, c) == SubSeq(s, 1, idx) \o <<c>> \o SubSeq(s, idx + 1, Len(s))

\* App::handle_char
handle_char(a, c) ==
    IF a.screen = "EditServer"
    THEN IF a.cursor_position <= Len(a.input_buffer)
         THEN [a EXCEPT !.input_buffer = InsertAt(@, a.cursor_position, c),
                        !.cursor_position = @ + 1]
         ELSE Panic(a)
    ELSE a

\* App::handle_backspace
handle_backspace(a) ==
    IF a.screen = "EditServer" /\ a.cursor_position > 0
    THEN IF a.cursor_position - 1 < Len(a.input_buffer)
         THEN [a EXCEPT !.cursor_position = @ - 1,
                        !.input_buffer = RemoveAt(@, a.cursor_position - 1)]
         ELSE Panic(a)
    ELSE a

\* App::handle_delete
handle_delete(a) ==
    IF a.screen = "EditServer" /\ a.cursor_position < Len(a.input_buffer)
    THEN [a EXCEPT !.input_buffer = RemoveAt(@, a.cursor_position)]
    ELSE a

\* App::cursor_left
cursor_left(a) ==
    IF a.cursor_position > 0 THEN [a EXCEPT !.cursor_position = @ - 1] ELSE a

\* App::cursor_right
cursor_right(a) ==
    IF a.cursor_position < Len(a.input_buffer)
    THEN [a EXCEPT !.cursor_position = @ + 1]
    ELSE a

(***************************************************************************)
(* tui/event.rs: handle_key_event                                          *)
(***************************************************************************)
Key(code) == [code |-> code, ch |-> "", ctrl |-> FALSE]
Char(c) == [code |-> "Char", ch |-> c, ctrl |-> FALSE]
CtrlC == [code |-> "Char", ch |-> "c", ctrl |-> TRUE]

IsKey(key, code) == key.code = code
IsChar(key, c) == key.code = "Char" /\ key.ch = c

\* `for _ in 0..n { app.select_previous() }` and the same for select_next
RECURSIVE select_previous_times(_, _)
select_previous_times(a, n) ==
    IF n = 0 THEN a ELSE select_previous_times(select_previous(a), n - 1)

RECURSIVE select_next_times(_, _)
select_next_times(a, n) ==
    IF n = 0 THEN a ELSE select_next_times(select_next(a), n - 1)

\* handle_server_list
handle_server_list(a, key, cmd_ok) ==
    CASE IsKey(key, "Up") \/ IsChar(key, "k") -> select_previous(a)
      [] IsKey(key, "Down") \/ IsChar(key, "j") -> select_next(a)
      [] IsKey(key, "Enter") \/ IsChar(key, " ") -> confirm_selection(a, cmd_ok)
      [] IsChar(key, "a") -> add_server(a)
      [] IsChar(key, "e") -> edit_selected_server(a)
      [] IsChar(key, "d") \/ IsKey(key, "Delete") -> delete_selected_server(a)
      [] IsChar(key, "?") \/ IsKey(key, "F1") -> go_to_screen(a, "Help")
      [] IsChar(key, "s") -> go_to_screen(a, "Settings")
      [] IsChar(key, "r") ->
           IF current_server(a).some
           THEN confirm_selection([a EXCEPT !.selected_conn_type = 0], cmd_ok)
           ELSE a
      [] IsChar(key, "S") ->
           IF current_server(a).some /\ has_ssh(current_server(a).val)
           THEN confirm_selection(
                  confirm_selection([a EXCEPT !.selected_conn_type = 1], cmd_ok),
                  cmd_ok)
           ELSE a
      [] key.code = "Char" /\ key.ch \in (Digits \ {"0"}) ->
           IF DigitVal(key.ch) - 1 < Len(a.servers)
           THEN confirm_selection(
                  [a EXCEPT !.selected_server = DigitVal(key.ch) - 1], cmd_ok)
           ELSE a
      [] OTHER -> a

\* handle_connection_type
handle_connection_type(a, key, cmd_ok) ==
    CASE IsKey(key, "Up") \/ IsChar(key, "k") -> select_previous(a)
      [] IsKey(key, "Down") \/ IsChar(key, "j") -> select_next(a)
      [] IsKey(key, "Enter") \/ IsChar(key, " ") -> confirm_selection(a, cmd_ok)
      [] IsKey(key, "Esc") \/ IsKey(key, "Backspace") -> go_back(a)
      [] IsChar(key, "1") ->
           confirm_selection([a EXCEPT !.selected_conn_type = 0], cmd_ok)
      [] IsChar(key, "2") ->
           IF Len(available_connection_types(a)) > 1
           THEN confirm_selection([a EXCEPT !.selected_conn_type = 1], cmd_ok)
           ELSE a
      [] IsChar(key, "3") ->
           IF Len(available_connection_types(a)) > 2
           THEN confirm_selection([a EXCEPT !.selected_conn_type = 2], cmd_ok)
           ELSE a
      [] OTHER -> a

\* a handler of screen Connecting in which Enter retries the connection
handle_connecting_retry(a, key, cmd_ok) ==
    IF IsKey(key, "Esc") THEN disconnect(a, cmd_ok)
    ELSE IF IsKey(key, "Enter") THEN start_connection(a, cmd_ok)
    ELSE a

\* handle_connecting
handle_connecting(a, key, cmd_ok) ==
    IF IsKey(key, "Esc") THEN disconnect(a, cmd_ok) ELSE a

\* a handler of screen Connected in which 'd' opens the delete dialog
handle_connected_delete(a, key, cmd_ok) ==
    CASE IsKey(key, "Esc") \/ IsKey(key, "Enter") -> confirm_selection(a, cmd_ok)
      [] IsChar(key, "d") -> delete_selected_server(a)
      [] OTHER -> a

\* handle_connected
handle_connected(a, key, cmd_ok) ==
    CASE IsKey(key, "Esc") \/ IsKey(key, "Enter") -> confirm_selection(a, cmd_ok)
      [] IsChar(key, "d") ->
           go_to_screen([a EXCEPT !.confirm_action = Action("Disconnect", 0),
                                  !.confirm_selection = 0], "Confirm")
      [] OTHER -> a

\* handle_help
handle_help(a, key) ==
    CASE IsKey(key, "Esc") \/ IsKey(key, "Enter") \/ IsChar(key, "?")
           \/ IsKey(key, "F1") -> go_back(a)
      [] IsKey(key, "Up") \/ IsChar(key, "k") -> select_previous(a)
      [] IsKey(key, "Down") \/ IsChar(key, "j") -> select_next(a)
      [] IsKey(key, "PageUp") -> select_previous_times(a, 10)
      [] IsKey(key, "PageDown") -> select_next_times(a, 10)
      [] OTHER -> a

\* handle_settings ('S' writes the configuration file and changes no state)
handle_settings(a, key) ==
    CASE IsKey(key, "Esc") \/ IsChar(key, "s") -> go_back(a)
      [] IsKey(key, "Up") \/ IsChar(key, "k") -> select_previous(a)
      [] IsKey(key, "Down") \/ IsChar(key, "j") -> select_next(a)
      [] OTHER -> a

\* handle_edit_server
handle_edit_server(a, key, cmd_ok) ==
    CASE IsKey(key, "Esc") -> go_back(a)
      [] IsKey(key, "Enter") -> confirm_selection(a, cmd_ok)
      [] IsKey(key, "Tab") \/ IsKey(key, "Down") ->
           select_next(save_current_field(a))
      [] IsKey(key, "BackTab") \/ IsKey(key, "Up") ->
           select_previous(save_current_field(a))
      [] IsKey(key, "Backspace") -> handle_backspace(a)
      [] IsKey(key, "Delete") -> handle_delete(a)
      [] IsKey(key, "Left") -> cursor_left(a)
      [] IsKey(key, "Right") -> cursor_right(a)
      [] IsKey(key, "Home") -> [a EXCEPT !.cursor_position = 0]
      [] IsKey(key, "End") -> [a EXCEPT !.cursor_position = Len(a.input_buffer)]
      [] key.code = "Char" -> handle_char(a, key.ch)
      [] OTHER -> a

\* handle_confirm
handle_confirm(a, key, cmd_ok) ==
    CASE IsKey(key, "Left") \/ IsKey(key, "Right") \/ IsKey(key, "Tab") ->
           [a EXCEPT !.confirm_selection = IF @ = 0 THEN 1 ELSE 0]
      [] IsChar(key, "y") \/ IsChar(key, "Y") ->
           confirm_selection([a EXCEPT !.confirm_selection = 1], cmd_ok)
      [] IsChar(key, "n") \/ IsChar(key, "N") \/ IsKey(key, "Esc") ->
           go_back([a EXCEPT !.confirm_selection = 0,
                             !.confirm_action = NoAction])
      [] IsKey(key, "Enter") -> confirm_selection(a, cmd_ok)
      [] OTHER -> a

\* handle_key_event: the global shortcuts, then the handler of the screen
handle_key_event(a, key, cmd_ok) ==
    IF IsChar(key, "c") /\ key.ctrl THEN request_quit(a)
    ELSE IF IsChar(key, "q") /\ a.screen # "EditServer" THEN request_quit(a)
    ELSE CASE a.screen = "ServerList" -> handle_server_list(a, key, cmd_ok)
           [] a.screen = "ConnectionTypeSelect" ->
                handle_connection_type(a, key, cmd_ok)
           [] a.screen = "Connecting" -> handle_connecting(a, key, cmd_ok)
           [] a.screen = "Connected" -> handle_connected(a, key, cmd_ok)
           [] a.screen = "Help" -> handle_help(a, key)
           [] a.screen = "Settings" -> handle_settings(a, key)
           [] a.screen = "EditServer" -> handle_edit_server(a, key, cmd_ok)
           [] a.screen = "Confirm" -> handle_confirm(a, key, cmd_ok)

\* Keys tried: every key some handler binds, one unbound character ('x'),
\* a digit beyond the catalog
SpecialKeys ==
    { Key(c) : c \in {"Up", "Down", "Enter", "Esc", "Backspace", "Delete",
                      "Left", "Right", "Tab", "BackTab", "Home", "End",
                      "PageUp", "PageDown", "F1"} }

ShortcutChars ==
    {"k", "j", " ", "a", "e", "d", "?", "s", "r", "S", "1", "2", "3", "9",
     "q", "y", "Y", "n", "N", "x"}

\* Characters typed into the EditServer form
TypedChars == {"x"}

KeysOn(screen) ==
    SpecialKeys \cup {CtrlC}
      \cup { Char(c) : c \in IF screen = "EditServer" THEN TypedChars
                             ELSE ShortcutChars }

\* The bounds of the interactive runs
WithinBounds(a) ==
    /\ Len(a.servers) <= MaxServers
    /\ Len(a.input_buffer) <= MaxFieldLen
    /\ a.help_scroll <= MaxScroll
    /\ a.settings_scroll <= MaxScroll

(***************************************************************************)
(* Initial state: run() has parsed the command line and loaded the config  *)
(***************************************************************************)
Init ==
    /\ entry \in {"direct", "simple"}
    /\ platform \in Platforms
    /\ settings \in SettingsSet
    /\ pc = "start"
    /\ server = NoServer
    /\ mode = "Rdp"
    /\ handler = FALSE
    /\ shutdown = FALSE
    /\ vpn_connected = FALSE
    /\ elapsed = 0
    /\ attempt = 0
    /\ chr_for = "none"
    /\ chr_start = 0
    /\ rdp_child = FALSE
    /\ rdp_running = FALSE
    /\ rdp_client = "none"
    /\ ret = "none"
    /\ calls = <<>>
    /\ app = NewApp(TuiServers)

(***************************************************************************)
(* main.rs: direct_connect                                                 *)
(***************************************************************************)
\* Command-line arguments tried: server references and type strings
ServerRefs ==
    { <<"0">>, <<"1">>, <<"2">>, <<"3">>, <<"4">>, <<"5">>, <<"6">>,
      <<"a">>, <<"B">>, <<"c">>, <<"D">>, <<"z">> }

ConnTypeStrs ==
    { <<"r", "d", "p">>, <<"R", "D", "P">>, <<"S", "s", "h">>,
      <<"b", "o", "t", "h">>, <<"B", "o", "t", "h">>, <<"x">>, <<>> }

\* servers.iter().position(|s| s.name.to_lowercase() == ref.to_lowercase())
NamePosition(servers, ref) ==
    LET hit == {i \in 1..Len(servers) :
                  ToLowercase(servers[i].name) = ToLowercase(ref)}
    IN IF hit = {} THEN None ELSE Some(Min(hit))

\* The index (1-based here) direct_connect resolves server_ref to, or None
\* where it bails
ResolveServer(servers, ref) ==
    LET n == ParseUsize(ref) IN
    IF n.some
    THEN (IF n.val < 1 \/ n.val > Len(servers) THEN None ELSE Some(n.val))
    ELSE NamePosition(servers, ref)

\* a match that falls back to Rdp for an unknown type string
ParseConnTypeDefaultRdp(str) ==
    LET l == ToLowercase(str) IN
    IF l = <<"s", "s", "h">> THEN Some("Ssh")
    ELSE IF l = <<"b", "o", "t", "h">> THEN Some("Both")
    ELSE Some("Rdp")

\* The match on conn_type_str.to_lowercase()
ParseConnType(str) ==
    LET l == ToLowercase(str) IN
    IF l = <<"r", "d", "p">> THEN Some("Rdp")
    ELSE IF l = <<"s", "s", "h">> THEN Some("Ssh")
    ELSE IF l = <<"b", "o", "t", "h">> THEN Some("Both")
    ELSE None

\* direct_connect without the check of has_ssh
DirectArgsOkNoSshCheck(servers, ref, str) ==
    /\ ResolveServer(servers, ref).some
    /\ ParseConnType(str).some

\* direct_connect accepts the arguments (none of its bail! is taken)
DirectArgsOk(servers, ref, str) ==
    /\ ResolveServer(servers, ref).some
    /\ ParseConnType(str).some
    /\ ~ ( ParseConnType(str).val \in {"Ssh", "Both"}
           /\ ~has_ssh(servers[ResolveServer(servers, ref).val]) )

\* direct_connect up to ConnectionManager::new
DirectConnect(server_ref, conn_type_str) ==
    /\ entry = "direct"
    /\ pc = "start"
    /\ IF DirectArgsOk(Servers, server_ref, conn_type_str)
       THEN /\ handler' = TRUE
            /\ server' = Servers[ResolveServer(Servers, server_ref).val]
            /\ mode' = ParseConnType(conn_type_str).val
            /\ pc' = "connect"
            /\ ret' = ret
       ELSE /\ ret' = "InputError"
            /\ pc' = "done"
            /\ UNCHANGED <<handler, server, mode>>
    /\ UNCHANGED <<app, entry, platform, settings, shutdown, vpn_connected,
                   elapsed, attempt, chr_for, chr_start, rdp_child, rdp_running,
                   rdp_client, calls>>

(***************************************************************************)
(* main.rs: simple_interactive_mode, ui.rs: the two menus                  *)
(***************************************************************************)
\* choice = 0, conn = "none": select_from_menu gave up after its retries (the
\* menu of connection types is shown only for a server with SSH)
SimpleSelect(choice, conn) ==
    /\ entry = "simple"
    /\ pc = "start"
    /\ handler' = TRUE
    /\ IF choice = 0 \/ (conn = "none" /\ has_ssh(Servers[choice]))
       THEN /\ ret' = "InputError"
            /\ pc' = "done"
            /\ UNCHANGED <<server, mode>>
       ELSE /\ server' = Servers[choice]
            /\ mode' = IF has_ssh(Servers[choice]) THEN conn ELSE "Rdp"
            /\ pc' = "connect"
            /\ ret' = ret
    /\ UNCHANGED <<app, entry, platform, settings, shutdown, vpn_connected,
                   elapsed, attempt, chr_for, chr_start, rdp_child, rdp_running,
                   rdp_client, calls>>

(***************************************************************************)
(* The Ctrl+C handler installed by setup_shutdown_handler                  *)
(***************************************************************************)
Interrupt ==
    /\ handler
    /\ ~shutdown
    /\ pc # "done"
    /\ shutdown' = TRUE
    /\ Logged(Call("interrupt", <<>>, TRUE))
    /\ UNCHANGED <<app, entry, platform, settings, pc, server, mode, handler,
                   vpn_connected, elapsed, attempt, chr_for, chr_start, rdp_child,
                   rdp_running, rdp_client, ret>>

(***************************************************************************)
(* connection.rs: ConnectionManager                                        *)
(***************************************************************************)
\* connect() returns Err(e): the manager is dropped next
Fail(e) == ret' = e /\ pc' = "drop"

\* where connect() goes on after connect_vpn() returned Ok
AfterVpn == IF mode = "Ssh" THEN "start_ssh" ELSE "start_rdp"

\* connect() returns Ok(()): direct_connect prints "Session ended" and returns
ReturnOk == ret' = "Ok" /\ pc' = "drop"

\* connect() returning without child.wait() in Rdp mode
AfterRdpNoWait(child) ==
    IF mode = "Both" THEN pc' = "start_ssh" /\ ret' = ret
    ELSE ReturnOk

\* where connect() goes on after start_rdp() returned Ok(child)
AfterRdp(child) ==
    IF mode = "Both" THEN pc' = "start_ssh" /\ ret' = ret
    ELSE IF child THEN pc' = "rdp_wait" /\ ret' = ret
    ELSE ReturnOk

\* connect() not waiting for the RDP client in Both mode
AfterSshNoWait == ReturnOk

\* where connect() goes on after start_ssh() returned Ok(())
AfterSsh ==
    IF mode = "Both" /\ rdp_child THEN pc' = "rdp_wait" /\ ret' = ret
    ELSE ReturnOk

\* connect_vpn without its check of the shutdown flag
ConnectVpnNoCheck ==
    /\ pc = "connect"
    /\ pc' = "connect_vpn"
    /\ UNCHANGED <<app, entry, platform, settings, server, mode, handler, shutdown,
                   vpn_connected, elapsed, attempt, chr_for, chr_start,
                   rdp_child, rdp_running, rdp_client, ret, calls>>

\* connect_vpn: the check of the shutdown flag
ConnectVpn ==
    /\ pc = "connect"
    /\ IF shutdown THEN Fail("Cancelled")
       ELSE pc' = "connect_vpn" /\ ret' = ret
    /\ UNCHANGED <<app, entry, platform, settings, server, mode, handler, shutdown,
                   vpn_connected, elapsed, attempt, chr_for, chr_start, rdp_child,
                   rdp_running, rdp_client, calls>>

\* connect_vpn: platform::connect_vpn(..)? and the store to vpn_connected
ConnectVpnCall(cmd_ok) ==
    /\ pc = "connect_vpn"
    /\ Logged(Call("connectVPN", server.vpn, connect_vpn(platform, cmd_ok) = "Ok"))
    /\ IF connect_vpn(platform, cmd_ok) = "Ok"
       THEN /\ vpn_connected' = TRUE
            /\ elapsed' = 0
            /\ pc' = "wait_loop"
            /\ ret' = ret
       ELSE /\ Fail("VpnError")
            /\ UNCHANGED <<vpn_connected, elapsed>>
    /\ UNCHANGED <<app, entry, platform, settings, server, mode, handler, shutdown,
                   attempt, chr_for, chr_start, rdp_child, rdp_running, rdp_client>>

\* wait_for_vpn_connection: the loop condition and the check of the flag
WaitLoop ==
    /\ pc = "wait_loop"
    /\ IF elapsed < settings.vpn_timeout_secs
       THEN IF shutdown THEN Fail("Cancelled")
            ELSE pc' = "wait_ping" /\ ret' = ret
       ELSE pc' = AfterVpn /\ ret' = ret
    /\ UNCHANGED <<app, entry, platform, settings, server, mode, handler, shutdown,
                   vpn_connected, elapsed, attempt, chr_for, chr_start, rdp_child,
                   rdp_running, rdp_client, calls>>

\* wait_for_vpn_connection: one ping of the RDP host; a failed ping took d
WaitPing(ok, d) ==
    /\ pc = "wait_ping"
    /\ Logged(Call("ping", server.rdp, ok))
    /\ IF ok
       THEN pc' = AfterVpn /\ elapsed' = elapsed
       ELSE pc' = "wait_sleep" /\ elapsed' = elapsed + d
    /\ UNCHANGED <<app, entry, platform, settings, server, mode, handler, shutdown,
                   vpn_connected, attempt, chr_for, chr_start, rdp_child, rdp_running,
                   rdp_client, ret>>

\* timeout.saturating_sub(start.elapsed())
Remaining == IF settings.vpn_timeout_secs > elapsed
             THEN settings.vpn_timeout_secs - elapsed ELSE 0

\* the sleep not capped by the time that remains
WaitSleepForNoCap(remaining) == PollInterval

\* the sleep wait_for_vpn_connection takes after a failed ping (0: none)
WaitSleepFor(remaining) ==
    IF remaining > PollInterval THEN PollInterval
    ELSE IF remaining > 0 THEN remaining
    ELSE 0

WaitSleep ==
    /\ pc = "wait_sleep"
    /\ IF WaitSleepFor(Remaining) > 0
       THEN /\ Logged(Call("sleep", WaitSleepFor(Remaining), TRUE))
            /\ elapsed' = elapsed + WaitSleepFor(Remaining)
       ELSE UNCHANGED <<calls, elapsed>>
    /\ pc' = "wait_loop"
    /\ UNCHANGED <<app, entry, platform, settings, server, mode, handler, shutdown,
                   vpn_connected, attempt, chr_for, chr_start, rdp_child, rdp_running,
                   rdp_client, ret>>

\* start_rdp: the check of the flag, then into check_host_reachable
StartRdp ==
    /\ pc = "start_rdp"
    /\ IF shutdown
       THEN /\ AfterRdp(FALSE)
            /\ UNCHANGED <<attempt, chr_for, chr_start>>
       ELSE /\ attempt' = 1
            /\ chr_for' = "rdp"
            /\ chr_start' = Len(calls)
            /\ pc' = "chr_loop"
            /\ ret' = ret
    /\ UNCHANGED <<app, entry, platform, settings, server, mode, handler, shutdown,
                   vpn_connected, elapsed, rdp_child, rdp_running, rdp_client,
                   calls>>

\* the host check_host_reachable was called with
ChrHost == IF chr_for = "rdp" THEN server.rdp ELSE ssh_ip(server).val

\* a start_ssh that reports an unreachable SSH host as an error
ChrReturnSshFatal(reachable) ==
    IF reachable
    THEN pc' = (IF chr_for = "rdp" THEN "rdp_launch" ELSE "ssh_launch") /\ ret' = ret
    ELSE IF chr_for = "rdp" THEN AfterRdp(FALSE) ELSE Fail("LaunchError")

\* check_host_reachable returned reachable to its caller
ChrReturn(reachable) ==
    IF reachable
    THEN pc' = (IF chr_for = "rdp" THEN "rdp_launch" ELSE "ssh_launch") /\ ret' = ret
    ELSE IF chr_for = "rdp" THEN AfterRdp(FALSE) ELSE AfterSsh

\* check_host_reachable: the top of the for loop and the check of the flag
ChrLoop ==
    /\ pc = "chr_loop"
    /\ IF shutdown THEN ChrReturn(FALSE)
       ELSE pc' = "chr_ping" /\ ret' = ret
    /\ UNCHANGED <<app, entry, platform, settings, server, mode, handler, shutdown,
                   vpn_connected, elapsed, attempt, chr_for, chr_start, rdp_child,
                   rdp_running, rdp_client, calls>>

\* check_host_reachable: one ping
ChrPing(ok) ==
    /\ pc = "chr_ping"
    /\ Logged(Call("ping", ChrHost, ok))
    /\ IF ok THEN ChrReturn(TRUE)
       ELSE IF attempt < settings.ping_retries
            THEN pc' = "chr_sleep" /\ ret' = ret
            ELSE ChrReturn(FALSE)
    /\ UNCHANGED <<app, entry, platform, settings, server, mode, handler, shutdown,
                   vpn_connected, elapsed, attempt, chr_for, chr_start, rdp_child,
                   rdp_running, rdp_client>>

\* 1 << attempt
BackoffOffByOne(k) == 2 ^ k

\* 1 << (attempt - 1)
Backoff(k) == 2 ^ (k - 1)

\* check_host_reachable: the backoff sleep, then the next iteration
ChrSleep ==
    /\ pc = "chr_sleep"
    /\ Logged(Call("sleep", Backoff(attempt), TRUE))
    /\ attempt' = attempt + 1
    /\ pc' = "chr_loop"
    /\ UNCHANGED <<app, entry, platform, settings, server, mode, handler, shutdown,
                   vpn_connected, elapsed, chr_for, chr_start, rdp_child,
                   rdp_running, rdp_client, ret>>

\* start_rdp: platform::start_rdp(..).context(..)?
RdpLaunch(avail) ==
    /\ pc = "rdp_launch"
    /\ Logged(Call("launchRDP", server.rdp, start_rdp(platform, avail) # "none"))
    /\ IF start_rdp(platform, avail) # "none"
       THEN /\ rdp_child' = TRUE
            /\ rdp_running' = TRUE
            /\ rdp_client' = start_rdp(platform, avail)
            /\ AfterRdp(TRUE)
       ELSE /\ Fail("LaunchError")
            /\ UNCHANGED <<rdp_child, rdp_running, rdp_client>>
    /\ UNCHANGED <<app, entry, platform, settings, server, mode, handler, shutdown,
                   vpn_connected, elapsed, attempt, chr_for, chr_start>>

\* start_ssh: the check of the flag, ssh_string()?, ssh_ip()?, then into
\* check_host_reachable
StartSsh ==
    /\ pc = "start_ssh"
    /\ IF shutdown
       THEN AfterSsh /\ UNCHANGED <<attempt, chr_for, chr_start>>
       ELSE IF ~ssh_string(server).some \/ ~ssh_ip(server).some
       THEN Fail("ConfigError") /\ UNCHANGED <<attempt, chr_for, chr_start>>
       ELSE /\ attempt' = 1
            /\ chr_for' = "ssh"
            /\ chr_start' = Len(calls)
            /\ pc' = "chr_loop"
            /\ ret' = ret
    /\ UNCHANGED <<app, entry, platform, settings, server, mode, handler, shutdown,
                   vpn_connected, elapsed, rdp_child, rdp_running, rdp_client,
                   calls>>

\* start_ssh dropping the error of platform::start_ssh
SshLaunchIgnoreErr(spawned) ==
    /\ pc = "ssh_launch"
    /\ Logged(Call("launchSSH", ssh_string(server).val, spawned))
    /\ AfterSsh
    /\ UNCHANGED <<app, entry, platform, settings, server, mode, handler, shutdown,
                   vpn_connected, elapsed, attempt, chr_for, chr_start,
                   rdp_child, rdp_running, rdp_client>>

\* start_ssh: platform::start_ssh(..).context(..)?; it returns when the ssh
\* process has exited (spawned: the ssh program could be run)
SshLaunch(spawned) ==
    /\ pc = "ssh_launch"
    /\ Logged(Call("launchSSH", ssh_string(server).val, spawned))
    /\ IF spawned THEN AfterSsh ELSE Fail("LaunchError")
    /\ UNCHANGED <<app, entry, platform, settings, server, mode, handler, shutdown,
                   vpn_connected, elapsed, attempt, chr_for, chr_start, rdp_child,
                   rdp_running, rdp_client>>

\* connect: child.wait(), which returns when the RDP client has exited
RdpWait ==
    /\ pc = "rdp_wait"
    /\ Logged(Call("waitRDP", server.rdp, TRUE))
    /\ rdp_running' = FALSE
    /\ ReturnOk
    /\ UNCHANGED <<app, entry, platform, settings, server, mode, handler, shutdown,
                   vpn_connected, elapsed, attempt, chr_for, chr_start, rdp_child,
                   rdp_client>>

\* a manager released without disconnecting
DropManagerNoTeardown(cmd_ok) ==
    /\ pc = "drop"
    /\ pc' = "done"
    /\ UNCHANGED <<app, entry, platform, settings, server, mode, handler, shutdown,
                   vpn_connected, elapsed, attempt, chr_for, chr_start,
                   rdp_child, rdp_running, rdp_client, ret, calls>>

\* a teardown that reports the failure of platform::disconnect_vpn as the
\* result of the attempt
DropManagerRaises(cmd_ok) ==
    /\ pc = "drop"
    /\ IF vpn_connected
       THEN /\ Logged(Call("disconnectVPN", server.vpn,
                           disconnect_vpn(platform, cmd_ok) = "Ok"))
            /\ vpn_connected' = FALSE
            /\ ret' = IF disconnect_vpn(platform, cmd_ok) = "Ok" THEN ret
                      ELSE "VpnError"
       ELSE UNCHANGED <<calls, vpn_connected, ret>>
    /\ pc' = "done"
    /\ UNCHANGED <<app, entry, platform, settings, server, mode, handler, shutdown,
                   elapsed, attempt, chr_for, chr_start, rdp_child, rdp_running,
                   rdp_client>>

\* impl Drop for ConnectionManager: disconnect_vpn()
DropManager(cmd_ok) ==
    /\ pc = "drop"
    /\ IF vpn_connected
       THEN /\ Logged(Call("disconnectVPN", server.vpn,
                           disconnect_vpn(platform, cmd_ok) = "Ok"))
            /\ vpn_connected' = FALSE
       ELSE UNCHANGED <<calls, vpn_connected>>
    /\ pc' = "done"
    /\ UNCHANGED <<app, entry, platform, settings, server, mode, handler, shutdown,
                   elapsed, attempt, chr_for, chr_start, rdp_child, rdp_running,
                   rdp_client, ret>>

\* one step of the main thread
MainThread ==
    \/ \E r \in ServerRefs, t \in ConnTypeStrs : DirectConnect(r, t)
    \/ \E i \in 0..Len(Servers), t \in ConnectionTypes \cup {"none"} :
          SimpleSelect(i, t)
    \/ ConnectVpn
    \/ \E b \in BOOLEAN : ConnectVpnCall(b)
    \/ WaitLoop
    \/ \E b \in BOOLEAN, d \in {0, PingWait(platform, settings.ping_timeout_ms)} :
          WaitPing(b, d)
    \/ WaitSleep
    \/ StartRdp
    \/ ChrLoop
    \/ \E b \in BOOLEAN : ChrPing(b)
    \/ ChrSleep
    \/ \E a \in SUBSET RdpPrograms : RdpLaunch(a)
    \/ StartSsh
    \/ \E b \in BOOLEAN : SshLaunch(b)
    \/ RdpWait
    \/ \E b \in BOOLEAN : DropManager(b)

Next == MainThread \/ Interrupt

Spec == Init /\ [][Next]_vars

\* The main thread is never starved: every call it blocks in (a ping with a
\* timeout, a sleep, a child process) returns.
FairSpec == Spec /\ WF_vars(MainThread)

(***************************************************************************)
(* main.rs: tui_mode, run_tui_loop                                         *)
(***************************************************************************)
TuiSettingsSet ==
    [vpn_timeout_secs : {TuiVpnTimeout},
     ping_timeout_ms  : {500},
     ping_retries     : {1}]

\* tui_mode: the configuration is loaded and App::new has run
TuiInit ==
    /\ entry = "tui"
    /\ platform \in Platforms
    /\ settings \in TuiSettingsSet
    /\ pc = "tui_loop"
    /\ server = NoServer
    /\ mode = "Rdp"
    /\ handler = FALSE
    /\ shutdown = FALSE
    /\ vpn_connected = FALSE
    /\ elapsed = 0
    /\ attempt = 0
    /\ chr_for = "none"
    /\ chr_start = 0
    /\ rdp_child = FALSE
    /\ rdp_running = FALSE
    /\ rdp_client = "none"
    /\ ret = "none"
    /\ calls = <<>>
    /\ app = NewApp(TuiServers)

TuiRunning ==
    entry = "tui" /\ pc = "tui_loop" /\ ~app.should_quit /\ ~app.panicked

\* run_tui_loop, Event::Key
TuiKey(key, cmd_ok) ==
    /\ TuiRunning
    /\ key \in KeysOn(app.screen)
    /\ app' = handle_key_event(app, key, cmd_ok)
    /\ WithinBounds(app')
    /\ UNCHANGED <<entry, platform, settings, pc, server, mode, handler,
                   shutdown, vpn_connected, elapsed, attempt, chr_for,
                   chr_start, rdp_child, rdp_running, rdp_client, ret, calls>>

\* Seconds since connection_start a tick can end at
TickTimes ==
    IF app.connection_start.some
    THEN app.connection_start.val .. (settings.vpn_timeout_secs + 1)
    ELSE {0}

\* run_tui_loop, Event::Tick
TuiTick(ok, now, avail) ==
    /\ TuiRunning
    /\ now \in TickTimes
    /\ app' = update_connection(app, ok, now, avail)
    /\ UNCHANGED <<entry, platform, settings, pc, server, mode, handler,
                   shutdown, vpn_connected, elapsed, attempt, chr_for,
                   chr_start, rdp_child, rdp_running, rdp_client, ret, calls>>

\* impl Drop for App
drop_app(a, cmd_ok) ==
    IF a.connected_vpn.some
    THEN AppCall([a EXCEPT !.connected_vpn = None],
                 Call("disconnectVPN", a.connected_vpn.val,
                      disconnect_vpn(platform, cmd_ok) = "Ok"))
    ELSE a

\* run_tui_loop has ended (should_quit, a panic unwinds, or terminal.draw or
\* event_handler.next returned an error): tui_mode returns and the App is
\* dropped
TuiExit(cmd_ok, io_err) ==
    /\ entry = "tui"
    /\ pc = "tui_loop"
    /\ app.should_quit \/ app.panicked \/ io_err
    /\ app' = drop_app(app, cmd_ok)
    /\ pc' = "done"
    /\ UNCHANGED <<entry, platform, settings, server, mode, handler,
                   shutdown, vpn_connected, elapsed, attempt, chr_for,
                   chr_start, rdp_child, rdp_running, rdp_client, ret, calls>>

\* Keys pressed in the session runs: every key but the two that open the
\* EditServer form
SessionKeys ==
    SpecialKeys \cup {CtrlC} \cup {Char(c) : c \in ShortcutChars \ {"a", "e"}}

\* Programs that can be spawned when a tick launches the session
TuiAvail == {{}, RdpPrograms}

\* one step of the interactive loop
TuiLoop ==
    \/ \E key \in SessionKeys, b \in BOOLEAN : TuiKey(key, b)
    \/ \E b \in BOOLEAN, t \in 0..(TuiVpnTimeout + 1), av \in TuiAvail :
          TuiTick(b, t, av)
    \/ \E b \in BOOLEAN, e \in BOOLEAN : TuiExit(b, e)

TuiSpec == TuiInit /\ [][TuiLoop]_vars

\* run(): any of the three entry points
ProgramInit == Init \/ TuiInit

ProgramNext == Next \/ TuiLoop

ProgramSpec == ProgramInit /\ [][ProgramNext]_vars

\* Keys pressed in the catalog runs: those that open and commit the EditServer
\* form, open and answer the delete dialog, start and end a session, and quit.
\* Nothing is typed into the form: its fields keep what they were loaded with.
CatalogKeys ==
    {Key(c) : c \in {"Enter", "Esc"}}
      \cup {Char(c) : c \in {"a", "e", "d", "y", "q"}}

\* one step of the interactive loop in the catalog runs
CatalogLoop ==
    \/ \E key \in CatalogKeys, b \in BOOLEAN : TuiKey(key, b)
    \/ \E b \in BOOLEAN, t \in 0..(TuiVpnTimeout + 1), av \in TuiAvail :
          TuiTick(b, t, av)
    \/ \E b \in BOOLEAN, e \in BOOLEAN : TuiExit(b, e)

CatalogSpec == TuiInit /\ [][CatalogLoop]_vars

\* Keys pressed in the form runs, by screen: the list is navigated, a server
\* is picked by its number, and the form and the delete dialog are opened; the
\* form is walked through, committed or left, and characters are typed and
\* erased in the name field; the dialog is answered; an attempt started by a
\* number key is cancelled.
FormKeysOn(a) ==
    CASE a.screen = "ServerList" ->
           {Key("Up"), Key("Down"), Char("a"), Char("e"), Char("d"),
            Char("1"), Char("3")}
      [] a.screen = "EditServer" ->
           {Key("Enter"), Key("Esc"), Key("Tab"), Key("BackTab")}
             \cup (IF a.edit_field_index = 0
                   THEN {Key("Backspace"), Char("x")} ELSE {})
      [] a.screen = "Confirm" -> {Char("y"), Char("n")}
      [] a.screen \in {"ConnectionTypeSelect", "Connecting"} -> {Key("Esc")}
      [] OTHER -> {}

\* one step of the interactive loop in the form runs
FormLoop ==
    \/ \E key \in FormKeysOn(app) : TuiKey(key, TRUE)
    \/ \E e \in BOOLEAN : TuiExit(TRUE, e)

FormSpec == TuiInit /\ [][FormLoop]_vars

(***************************************************************************)
(* Reading the history                                                     *)
(***************************************************************************)
CallIdx(op) == {i \in 1..Len(calls) : calls[i].op = op}

Count(op) == Cardinality(CallIdx(op))

IsPlatformCall(c) == c.op \notin {"interrupt", "sleep"}

\* the platform calls of the attempt, in order, as <<operation, argument>>
PlatformCalls ==
    LET cs == SelectSeq(calls, IsPlatformCall)
    IN [i \in 1..Len(cs) |-> <<cs[i].op, cs[i].arg>>]

\* outcomes connect() can end with
ConnectOutcomes == {"Ok", "Cancelled", "ConfigError", "LaunchError", "VpnError"}

VpnWasConnected == \E i \in CallIdx("connectVPN") : calls[i].ok

C2_CancelledBeforeStart ==
    /\ [][(pc = "connect" /\ shutdown /\ pc' # pc)
             => (ret' = "Cancelled" /\ pc' = "drop" /\ calls' = calls)]_vars
    /\ []((ret = "Cancelled" /\ Count("connectVPN") = 0)
             => /\ pc \in {"drop", "done"}
                /\ Count("launchRDP") = 0
                /\ Count("launchSSH") = 0
                /\ Count("ping") = 0)

C2_Witness ==
    /\ pc = "done"
    /\ ret = "Cancelled"
    /\ Len(calls) = 1
    /\ calls[1].op = "interrupt"

(***************************************************************************)
(* C4                                                                      *)
(***************************************************************************)
MalformedSsh(s) == has_ssh(s) /\ AtPositions(s.ssh.val) = {}

\* C4 as stated: for a target whose SSH string has no '@' and mode SSH or
\* BOTH, no pingHost, launchRDP or launchSSH call is ever made, and an attempt
\* that was not cancelled and whose connectVPN succeeded ends with ConfigError.
C4_MalformedSshRejectedFirst ==
    (pc # "start" /\ mode \in {"Ssh", "Both"} /\ MalformedSsh(server))
        => /\ Count("ping") = 0
           /\ Count("launchRDP") = 0
           /\ Count("launchSSH") = 0
           /\ (pc = "done" /\ ~shutdown /\ VpnWasConnected => ret = "ConfigError")

(***************************************************************************)
(* C5                                                                      *)
(***************************************************************************)
\* the backoff after the k-th failed attempt: 1s, 2s, 4s, 8s, 16s
ExpectedBackoff == <<1, 2, 4, 8, 16>>

\* k failed pings of host h, each followed by its backoff sleep
FailedPings(k, h) ==
    [i \in 1..(2 * k) |->
        IF i % 2 = 1 THEN Call("ping", h, FALSE)
        ELSE Call("sleep", ExpectedBackoff[i \div 2], TRUE)]

\* what check_host_reachable has logged since it was entered
ChrSegment(log) == SubSeq(log, chr_start + 1, Len(log))

ChrPcs == {"chr_loop", "chr_ping", "chr_sleep"}

\* C5: a check_host_reachable that returns with the shutdown flag never set
\* has either pinged k times, the k-th ping alone succeeding, and reports
\* reachable, or has pinged exactly ping_retries times without success and
\* reports unreachable; the k-th failed ping is followed by a sleep of
\* 2^(k-1) s, except the last one, which is followed by no sleep.
C5_ReachabilityBackoff ==
    [][(pc = "chr_ping" /\ pc' \notin ChrPcs /\ ~shutdown')
          => LET n == settings.ping_retries
                 h == ChrHost
             IN IF calls'[Len(calls')].ok
                THEN /\ ChrSegment(calls') =
                           FailedPings(attempt - 1, h) \o <<Call("ping", h, TRUE)>>
                     /\ attempt <= n
                     /\ pc' \in {"rdp_launch", "ssh_launch"}
                ELSE /\ attempt = n
                     /\ ChrSegment(calls') =
                           SubSeq(FailedPings(n, h), 1, 2 * n - 1)
                     /\ pc' \notin {"rdp_launch", "ssh_launch"}
                     /\ Count("launchRDP")' = Count("launchRDP")]_vars

\* three pings of the RDP host failed, with sleeps of 1s and 2s between them
C5_Witness ==
    /\ settings.ping_retries = 3
    /\ ~shutdown
    /\ mode = "Both"
    /\ pc = "start_ssh"
    /\ chr_for = "rdp"
    /\ ChrSegment(calls) =
          << Call("ping", server.rdp, FALSE), Call("sleep", 1, TRUE),
             Call("ping", server.rdp, FALSE), Call("sleep", 2, TRUE),
             Call("ping", server.rdp, FALSE) >>

(***************************************************************************)
(* C6                                                                      *)
(***************************************************************************)
WaitPcs == {"wait_loop", "wait_ping", "wait_sleep"}

\* wait_for_vpn_connection has just returned Ok after nothing but failed
\* pings, and no shutdown was requested
VpnWaitTimedOut ==
    /\ pc = AfterVpn
    /\ chr_for = "none"
    /\ ~shutdown
    /\ Count("ping") > 0
    /\ \A i \in CallIdx("ping") : ~calls[i].ok

\* C6 as stated: when the wait has timed out, no more than vpnTimeout plus
\* one poll interval has elapsed.
C6_WithinOnePollInterval ==
    VpnWaitTimedOut => elapsed <= settings.vpn_timeout_secs + PollInterval

\* C6 amended: the wait always ends; no ping and no sleep starts once
\* vpn_timeout_secs has elapsed, and a sleep never runs past the deadline; the
\* step taken at the deadline makes no call, raises no error and goes on to
\* the session launch; when it ends on the timeout, less than one ping timeout
\* has elapsed since the deadline.
C6_VpnWaitTimeout ==
    /\ (pc \in WaitPcs) ~> (pc \notin WaitPcs)
    /\ [](pc = "wait_ping" => elapsed < settings.vpn_timeout_secs)
    /\ [][(pc = "wait_sleep" /\ pc' # pc)
             => (calls' # calls
                   => /\ elapsed < settings.vpn_timeout_secs
                      /\ elapsed' <= settings.vpn_timeout_secs)]_vars
    /\ [][(pc = "wait_loop" /\ elapsed >= settings.vpn_timeout_secs /\ pc' # pc)
             => (pc' = AfterVpn /\ ret' = "none" /\ calls' = calls)]_vars
    /\ [](VpnWaitTimedOut
             => /\ elapsed >= settings.vpn_timeout_secs
                /\ elapsed < settings.vpn_timeout_secs
                               + PingWait(platform, settings.ping_timeout_ms)
                /\ ret = "none")

\* the wait timed out after two failed pings and the attempt goes on
C6_Witness ==
    /\ VpnWaitTimedOut
    /\ Count("ping") = 2
    /\ elapsed > settings.vpn_timeout_secs

(***************************************************************************)
(* C7                                                                      *)
(***************************************************************************)
\* C7 as stated: in Both mode launchRDP comes before launchSSH, and connect()
\* has not returned (the manager is not being released) while a launched RDP
\* client is still running.
C7_BothEndsAfterBothSessions ==
    /\ \A i \in CallIdx("launchSSH") : \A j \in CallIdx("launchRDP") : j < i
    /\ pc \in {"drop", "done"} => ~rdp_running

(***************************************************************************)
(* C8                                                                      *)
(***************************************************************************)
\* position of the only call of operation op
Pos(op) == CHOOSE i \in CallIdx(op) : TRUE

\* C8: connectVPN comes before every ping, launch and wait; disconnectVPN is
\* the last entry of the history; in Both mode with both sessions launched
\* the RDP host is pinged only before launchRDP, the SSH host only between
\* launchRDP and launchSSH, then come the wait for the RDP client and
\* disconnectVPN; when every ping succeeds the calls are exactly connectVPN,
\* ping rdp (VPN wait), ping rdp (reachability), launchRDP, ping ssh host,
\* launchSSH, wait, disconnectVPN.
C8_CallOrder ==
    /\ \A i \in 1..Len(calls) :
          calls[i].op \notin {"interrupt", "connectVPN"}
              => \E j \in CallIdx("connectVPN") : j < i
    /\ \A i \in CallIdx("disconnectVPN") : i = Len(calls) /\ pc = "done"
    /\ (pc = "done" /\ mode = "Both" /\ ret = "Ok"
          /\ Count("launchRDP") = 1 /\ Count("launchSSH") = 1)
          => /\ Count("connectVPN") = 1
             /\ Count("waitRDP") = 1
             /\ Count("disconnectVPN") = 1
             /\ Pos("connectVPN") < Pos("launchRDP")
             /\ Pos("launchRDP") < Pos("launchSSH")
             /\ Pos("launchSSH") < Pos("waitRDP")
             /\ Pos("waitRDP") < Pos("disconnectVPN")
             /\ \A i \in CallIdx("ping") :
                   IF calls[i].arg = server.rdp
                   THEN i < Pos("launchRDP")
                   ELSE /\ calls[i].arg = ssh_ip(server).val
                        /\ Pos("launchRDP") < i
                        /\ i < Pos("launchSSH")
    /\ (pc = "done" /\ mode = "Both" /\ server = Servers[1] /\ ret = "Ok"
          /\ ~shutdown /\ \A i \in CallIdx("ping") : calls[i].ok)
          => PlatformCalls =
               << <<"connectVPN", <<"V", "1">> >>,
                  <<"ping", <<"r", "1">> >>,
                  <<"ping", <<"r", "1">> >>,
                  <<"launchRDP", <<"r", "1">> >>,
                  <<"ping", <<"h">> >>,
                  <<"launchSSH", <<"u", "@", "h">> >>,
                  <<"waitRDP", <<"r", "1">> >>,
                  <<"disconnectVPN", <<"V", "1">> >> >>

\* a finished Both attempt in which every ping succeeded
C8_Witness ==
    /\ pc = "done"
    /\ mode = "Both"
    /\ server = Servers[1]
    /\ ret = "Ok"
    /\ ~shutdown
    /\ Count("ping") = 3
    /\ \A i \in CallIdx("ping") : calls[i].ok
    /\ Count("disconnectVPN") = 1

(***************************************************************************)
(* C9                                                                      *)
(***************************************************************************)
\* the last ping of host h in the history failed
LastPingFailed(h) ==
    LET ps == {i \in CallIdx("ping") : calls[i].arg = h}
    IN ps # {} /\ \A i \in ps : (\A j \in ps : j <= i) => ~calls[i].ok

\* a finished Both attempt whose RDP host was unreachable and whose SSH host
\* answered a ping
RdpDownSshUp ==
    /\ pc = "done"
    /\ mode = "Both"
    /\ LastPingFailed(server.rdp)
    /\ ssh_ip(server).some
    /\ \E i \in CallIdx("ping") : calls[i].arg = ssh_ip(server).val /\ calls[i].ok

\* C9: in Both mode, when the RDP host is unreachable and the SSH host is
\* reachable, launchRDP is not invoked, launchSSH is invoked once, the last
\* call is disconnectVPN, and connect() returns Ok when launchSSH returned and
\* LaunchError when ssh could not be spawned.
C9_SshStillLaunched ==
    RdpDownSshUp
        => /\ Count("launchRDP") = 0
           /\ Count("waitRDP") = 0
           /\ Count("launchSSH") = 1
           /\ calls[Pos("launchSSH")].arg = server.ssh.val
           /\ Count("disconnectVPN") = 1
           /\ calls[Len(calls)].op = "disconnectVPN"
           /\ ret = (IF calls[Pos("launchSSH")].ok THEN "Ok" ELSE "LaunchError")

\* such an attempt in which ssh could not be spawned
C9_Witness ==
    /\ RdpDownSshUp
    /\ Count("launchSSH") = 1
    /\ ret = "LaunchError"

(***************************************************************************)
(* C3                                                                      *)
(***************************************************************************)
\* the platform calls that connect, probe or launch
SessionOps == {"connectVPN", "ping", "launchRDP", "launchSSH"}

\* the interactive controller has an attempt or a session in hand
TuiAttemptActive == entry = "tui" /\ app.connected_vpn.some

\* the mode the controller would use is RDP when its target has no SSH
TuiModeAllowed(a) ==
    /\ current_server(a).some
    /\ ~has_ssh(current_server(a).val) => selected_connection_type(a) = "Rdp"

\* C3: a target without SSH capability (ssh absent or empty) is never
\* orchestrated in mode SSH or BOTH.  direct_connect and the simple
\* interactive mode: once the entry point has handed over to the manager, and
\* whenever a connectVPN, ping or launch call has been made, the mode is RDP
\* unless the target has SSH; an input error leaves no platform call behind.
\* Interactive controller: while an attempt is in hand for a target without
\* SSH the selected mode is RDP, and every step that makes a connectVPN, ping
\* or launch call is made for a target and mode that satisfy this.
C3_NoSshModeRejected ==
    /\ [](entry # "tui" =>
            /\ (pc \notin {"start", "done"} \/ ret \notin {"none", "InputError"})
                 => (mode \in {"Ssh", "Both"} => has_ssh(server))
            /\ (\E i \in 1..Len(calls) : calls[i].op \in SessionOps)
                 => (mode \in {"Ssh", "Both"} => has_ssh(server))
            /\ ret = "InputError"
                 => ~(\E i \in 1..Len(calls) : IsPlatformCall(calls[i])))
    /\ [](TuiAttemptActive => TuiModeAllowed(app))
    /\ [][ ( /\ entry = "tui"
             /\ app'.calls # app.calls
             /\ app'.calls # <<>>
             /\ app'.calls[Len(app'.calls)].op \in SessionOps )
           => TuiModeAllowed(app') ]_vars

\* reached: the controller has started an attempt for a target without SSH
\* and launched its RDP session
C3_Witness ==
    /\ TuiAttemptActive
    /\ current_server(app).some
    /\ ~has_ssh(current_server(app).val)
    /\ app.connection_status = "Connected"
    /\ \E i \in 1..Len(app.calls) : app.calls[i].op = "launchRDP"

(***************************************************************************)
(* C10                                                                     *)
(***************************************************************************)
\* connectVPN has returned an error in the attempt in hand
ConnectVpnFailed ==
    IF entry = "tui"
    THEN /\ app.connected_vpn.some
         /\ \E i \in 1..Len(app.calls) :
               app.calls[i].op = "connectVPN" /\ ~app.calls[i].ok
    ELSE \E i \in 1..Len(calls) : calls[i].op = "connectVPN" /\ ~calls[i].ok

\* C10 as stated: a failure of connectVPN does not abort the attempt.  After
\* connectVPN has returned an error, connect() does not end with the VPN
\* error (it goes on to the wait for the VPN), and the controller's attempt is
\* in WaitingForVpn or beyond, not in an Error status.
C10_VpnFailureDoesNotAbort ==
    ConnectVpnFailed =>
        IF entry = "tui"
        THEN app.connection_status \in {"WaitingForVpn", "StartingSession", "Connected"}
        ELSE ret # "VpnError" /\ pc \notin {"drop", "done"}

(***************************************************************************)
(* C11                                                                     *)
(***************************************************************************)
\* C11 as stated: whenever wait_for_vpn_connection is left with the shutdown
\* flag set (it was set during a ping or a sleep of the wait), connect() ends
\* at that step with Cancelled and goes no further.
C11_CancelledDuringWait ==
    [][(shutdown /\ pc \in WaitPcs /\ pc' \notin WaitPcs)
          => (ret' = "Cancelled" /\ pc' = "drop")]_vars

(***************************************************************************)
(* C12                                                                     *)
(***************************************************************************)
\* C12 as stated: with the shutdown flag set, check_host_reachable neither
\* pings at the top of an iteration nor sleeps after a failed ping: the step
\* makes no call and returns unreachable to the caller without an error.
C12_CheckedBeforePingAndSleep ==
    [][(shutdown /\ pc \in {"chr_loop", "chr_sleep"} /\ pc' # pc)
          => /\ calls' = calls
             /\ pc' \notin ChrPcs \cup {"rdp_launch", "ssh_launch"}
             /\ ret' \in {"none", "Ok"}]_vars

(***************************************************************************)
(* C13                                                                     *)
(***************************************************************************)
\* the calls that launch a session
LaunchIdx == CallIdx("launchRDP") \cup CallIdx("launchSSH")

\* The signal arrived after the VPN wait had finished and before any session
\* was launched: the interrupt is logged after a successful ping (the wait
\* returns at its first successful ping at the latest) and after no launch.
SignalAfterWait(i) ==
    /\ i \in CallIdx("interrupt")
    /\ \E w \in CallIdx("ping") : w < i /\ calls[w].ok
    /\ \A l \in LaunchIdx : l > i

\* C13 as stated: an attempt whose signal arrived after the VPN wait and
\* before a session was launched ends Cancelled, never success, and launches
\* no session after the signal.
C13_CancelledBeforeLaunch ==
    \A i \in 1..Len(calls) :
        SignalAfterWait(i) =>
            /\ LaunchIdx = {}
            /\ pc = "done" => ret = "Cancelled"

(***************************************************************************)
(* C14                                                                     *)
(***************************************************************************)
\* the pings check_host_reachable has made for the RDP host in Rdp mode
RdpChecks ==
    IF chr_for = "rdp"
    THEN {i \in CallIdx("ping") : i > chr_start}
    ELSE {}

\* C14: in Rdp mode, once connect() has returned: if check_host_reachable
\* made ping_retries pings and all failed, launchRDP was not invoked and the
\* result is success; if one of its pings succeeded, launchRDP was invoked
\* exactly once, and when the client was started connect() returned success
\* only after child.wait() returned (the client is not running); launchRDP is
\* never invoked without a successful ping; when the manager has been
\* released, the VPN has been disconnected once, as the last call.
C14_RdpMode ==
    (mode = "Rdp" /\ ret \in ConnectOutcomes) =>
        /\ ( /\ Cardinality(RdpChecks) = settings.ping_retries
             /\ \A i \in RdpChecks : ~calls[i].ok )
              => (Count("launchRDP") = 0 /\ ret = "Ok")
        /\ (\E i \in RdpChecks : calls[i].ok)
              => /\ Count("launchRDP") = 1
                 /\ \A l \in CallIdx("launchRDP") :
                       IF calls[l].ok
                       THEN /\ ret = "Ok"
                            /\ ~rdp_running
                            /\ \E w \in CallIdx("waitRDP") : w > l
                       ELSE ret = "LaunchError"
        /\ (Count("launchRDP") > 0 => \E i \in RdpChecks : calls[i].ok)
        /\ (pc = "done" /\ RdpChecks # {})
              => /\ Count("disconnectVPN") = 1
                 /\ calls[Len(calls)].op \in {"disconnectVPN", "interrupt"}
                 /\ \A i \in 1..Len(calls) :
                       IsPlatformCall(calls[i]) => i <= Pos("disconnectVPN")

\* reached: an Rdp attempt whose host stayed unreachable through all of at
\* least two retries, ended in success and torn down
C14_Witness ==
    /\ mode = "Rdp"
    /\ pc = "done"
    /\ ret = "Ok"
    /\ settings.ping_retries >= 2
    /\ Cardinality(RdpChecks) = settings.ping_retries
    /\ \A i \in RdpChecks : ~calls[i].ok
    /\ Count("launchRDP") = 0
    /\ Count("disconnectVPN") = 1

(***************************************************************************)
(* C15                                                                     *)
(***************************************************************************)
\* the disconnectVPN calls of the controller's current attempt
AppDisconnects == {i \in 1..Len(app.calls) : app.calls[i].op = "disconnectVPN"}

\* the step of the controller has called platform::disconnect_vpn
AppDisconnectStep ==
    /\ entry = "tui"
    /\ app'.calls # app.calls
    /\ app'.calls # <<>>
    /\ app'.calls[Len(app'.calls)].op = "disconnectVPN"

\* C15: teardown never raises.  Manager: the release of the manager always
\* completes, leaves the result of connect() as it was and clears
\* vpn_connected, whether platform::disconnect_vpn succeeded or failed, and
\* disconnectVPN is never invoked twice.  Controller: a step that calls
\* disconnect_vpn, whatever its result, clears connected_vpn without a panic,
\* and App::disconnect leaves no connected server and status Idle; the
\* attempt sees at most one disconnectVPN, after which connected_vpn is
\* empty.
C15_TeardownNeverRaises ==
    /\ [][(entry # "tui" /\ pc = "drop" /\ pc' # pc)
             => (pc' = "done" /\ ret' = ret /\ ~vpn_connected')]_vars
    /\ [](entry # "tui" =>
            /\ Count("disconnectVPN") <= 1
            /\ Count("disconnectVPN") = 1 => (pc = "done" /\ ~vpn_connected))
    /\ [][AppDisconnectStep =>
             /\ ~app'.connected_vpn.some
             /\ ~app'.panicked
             /\ pc' = "tui_loop" => /\ ~app'.connected_server.some
                                    /\ app'.connection_status = "Idle"]_vars
    /\ [](entry = "tui" =>
            /\ Cardinality(AppDisconnects) <= 1
            /\ AppDisconnects # {} => ~app.connected_vpn.some)

\* reached: platform::disconnect_vpn failed at the release of a manager whose
\* connect() had returned success
C15_Witness ==
    /\ entry # "tui"
    /\ pc = "done"
    /\ ret = "Ok"
    /\ \E i \in CallIdx("disconnectVPN") : ~calls[i].ok

(***************************************************************************)
(* C16                                                                     *)
(***************************************************************************)
\* the server reference is a number
IsNumber(ref) == ref # <<>> /\ \A i \in 1..Len(ref) : ref[i] \in Digits

\* the servers a reference names: by 1-based index, or by name ignoring case
Referred(ref) ==
    IF IsNumber(ref)
    THEN {i \in 1..Len(Servers) : i = DecimalValue(ref)}
    ELSE {i \in 1..Len(Servers) : ToLowercase(Servers[i].name) = ToLowercase(ref)}

\* the mode a type string names, ignoring case
ModeNamed(str) ==
    {m \in ConnectionTypes :
        \/ m = "Rdp" /\ ToLowercase(str) = <<"r", "d", "p">>
        \/ m = "Ssh" /\ ToLowercase(str) = <<"s", "s", "h">>
        \/ m = "Both" /\ ToLowercase(str) = <<"b", "o", "t", "h">>}

\* one of the input errors: index outside 1..=len, unknown name, unknown
\* mode string, SSH or BOTH requested for a server without SSH
InputInvalid(ref, str) ==
    \/ Referred(ref) = {}
    \/ ModeNamed(str) = {}
    \/ /\ ModeNamed(str) \cap {"Ssh", "Both"} # {}
       /\ \A i \in Referred(ref) : ~has_ssh(Servers[i])

\* C16: direct_connect called with an invalid index, an unknown name, an
\* unknown mode string, or SSH/BOTH for a server without SSH returns the input
\* error at once: no ConnectionManager is created, the shutdown handler is not
\* installed and nothing is called; and a run of direct_connect that ended
\* with the input error has made no platform call at all.
C16_InputErrorsBeforeOrchestration ==
    /\ [][\A r \in ServerRefs, t \in ConnTypeStrs :
            (DirectConnect(r, t) /\ InputInvalid(r, t))
               => /\ ret' = "InputError"
                  /\ pc' = "done"
                  /\ calls' = calls
                  /\ ~handler'
                  /\ ~vpn_connected']_vars
    /\ []((entry = "direct" /\ ret = "InputError")
             => (calls = <<>> /\ pc = "done" /\ ~vpn_connected /\ server = NoServer))

\* reached: direct_connect has returned an input error
C16_Witness ==
    /\ entry = "direct"
    /\ ret = "InputError"
    /\ pc = "done"
    /\ calls = <<>>

(***************************************************************************)
(* C17                                                                     *)
(***************************************************************************)
\* the Disconnect dialog opened from screen Connected is confirmed: 'y', 'Y',
\* or Enter with Yes selected
DisconnectConfirmed(key) ==
    /\ app.screen = "Confirm"
    /\ app.prev_screen = Some("Connected")
    /\ app.confirm_action = Action("Disconnect", 0)
    /\ \/ key \in {Char("y"), Char("Y")}
       \/ key = Key("Enter") /\ app.confirm_selection = 1

\* C17: from screen Connected, confirming the Disconnect dialog with Yes runs
\* the teardown, disconnectVPN for the VPN of the session, and leaves the
\* controller on screen ServerList with status Idle and no connected server.
C17_DisconnectLeadsToServerList ==
    [][\A key \in {Char("y"), Char("Y"), Key("Enter")}, ok \in BOOLEAN :
          (DisconnectConfirmed(key) /\ TuiKey(key, ok))
             => /\ app.connected_vpn.some
                /\ ~app'.connected_vpn.some
                /\ app'.calls = Append(app.calls,
                                       Call("disconnectVPN", app.connected_vpn.val,
                                              disconnect_vpn(platform, ok) = "Ok"))
                /\ app'.connection_status = "Idle"
                /\ ~app'.connected_server.some
                /\ app'.screen = "ServerList"]_vars

(***************************************************************************)
(* C18                                                                     *)
(***************************************************************************)
\* the step ran start_connection: the only caller of go_to_screen(Connecting)
StartConnectionStep ==
    /\ entry = "tui"
    /\ app'.screen = "Connecting"
    /\ app'.prev_screen.some
    /\ app.screen # "Connecting" \/ app'.prev_screen # app.prev_screen

\* C18: the controller never starts a second orchestration while one is
\* active.  start_connection, with its connectVPN call, runs only while
\* connected_vpn is unset and sets it; a disconnectVPN call is made only while
\* connected_vpn is set and clears it; and connected_vpn changes in no other
\* step: the connectVPN and disconnectVPN calls of the controller alternate.
C18_SingleSession ==
    [][/\ StartConnectionStep
          => /\ ~app.connected_vpn.some
             /\ app.screen \in {"ServerList", "ConnectionTypeSelect"}
             /\ app'.connected_vpn.some
             /\ Len(app'.calls) = 1
             /\ app'.calls[1].op = "connectVPN"
             /\ app'.calls[1].arg = app'.connected_vpn.val
       /\ AppDisconnectStep
          => /\ app.connected_vpn.some
             /\ ~app'.connected_vpn.some
             /\ app'.calls = Append(app.calls,
                                    Call("disconnectVPN", app.connected_vpn.val,
                                         app'.calls[Len(app'.calls)].ok))
       /\ (entry = "tui" /\ app'.connected_vpn # app.connected_vpn)
          => (StartConnectionStep \/ AppDisconnectStep)
       /\ (entry = "tui" /\ app'.calls # app.calls
             /\ app'.calls[Len(app'.calls)].op = "connectVPN")
          => StartConnectionStep]_vars

\* reached: a session is active, its RDP client was launched, and the user
\* is in the Quit dialog opened over it
C18_Witness ==
    /\ entry = "tui"
    /\ app.connected_vpn = Some(<<"W">>)
    /\ app.connection_status = "Connected"
    /\ app.screen = "Confirm"
    /\ app.confirm_action = Action("Quit", 0)
    /\ app.calls = <<Call("connectVPN", <<"W">>, TRUE), Call("ping", <<"q">>, TRUE),
                     Call("launchRDP", <<"q">>, TRUE)>>

(***************************************************************************)
(* C19                                                                     *)
(***************************************************************************)
\* the controller has a live session: a VPN it connected and has not released
SessionActive == app.connected_vpn.some

\* every connectVPN of this controller has been followed by a disconnectVPN of
\* the same VPN
AllReleased ==
    /\ ~app.connected_vpn.some
    /\ app.calls # <<>>
          => /\ app.calls[Len(app.calls)].op = "disconnectVPN"
             /\ app.calls[Len(app.calls)].arg = app.calls[1].arg
             /\ Cardinality(AppDisconnects) = 1

\* C19: a live interactive session is never abandoned without teardown.  A
\* quit request ('q' or Ctrl+C) while a session is active opens Confirm(Quit)
\* and does not quit; and whenever the controller terminates, should_quit set
\* or the App dropped, disconnectVPN has been called for every VPN the
\* controller connected.
C19_NoSessionAbandoned ==
    /\ [][\A key \in {Char("q"), CtrlC}, ok \in BOOLEAN :
            (SessionActive /\ TuiKey(key, ok))
               => /\ ~app'.should_quit
                  /\ app'.screen = "Confirm"
                  /\ app'.confirm_action = Action("Quit", 0)
                  /\ app'.connected_vpn = app.connected_vpn
                  /\ app'.calls = app.calls]_vars
    /\ []((entry = "tui" /\ (app.should_quit \/ pc = "done")) => AllReleased)

\* reached: the event loop ended on an error during a session whose RDP client
\* was launched, the App was dropped, and the VPN of the session was released
C19_Witness ==
    /\ entry = "tui"
    /\ pc = "done"
    /\ ~app.should_quit
    /\ app.connection_status = "Connected"
    /\ \E i \in 1..Len(app.calls) : app.calls[i].op = "launchRDP"
    /\ AllReleased

(***************************************************************************)
(* C20                                                                     *)
(***************************************************************************)
\* the target a key selects on ServerList: Enter or space the highlighted
\* server, a digit the server of that number
SelectedTarget(key) ==
    IF key \in {Key("Enter"), Char(" ")}
    THEN IF app.selected_server < Len(app.servers)
         THEN Some(app.selected_server) ELSE NoneOf(0)
    ELSE IF key.code = "Char" /\ ~key.ctrl /\ key.ch \in (Digits \ {"0"})
              /\ DigitVal(key.ch) - 1 < Len(app.servers)
         THEN Some(DigitVal(key.ch) - 1)
         ELSE NoneOf(0)

\* the keys that select a target on ServerList
SelectKeys == {Key("Enter")} \cup {Char(c) : c \in {" ", "1", "2", "3", "9"}}

\* C20: on ServerList, selecting a target with SSH capability moves to
\* ConnectionTypeSelect and starts nothing; selecting a target without SSH
\* goes directly to Connecting, starts the connection to that target, and the
\* mode is RDP whatever connection type an earlier session had selected; the
\* session of a target without SSH keeps mode RDP.
C20_SelectTarget ==
    /\ [][\A key \in SelectKeys, ok \in BOOLEAN :
            (app.screen = "ServerList" /\ SelectedTarget(key).some /\ TuiKey(key, ok))
               => LET t   == SelectedTarget(key).val
                      srv == app.servers[t + 1]
                  IN /\ app'.selected_server = t
                     /\ IF has_ssh(srv)
                        THEN /\ app'.screen = "ConnectionTypeSelect"
                             /\ app'.prev_screen = Some("ServerList")
                             /\ ~app'.connected_vpn.some
                             /\ ~app'.connected_server.some
                             /\ app'.calls = app.calls
                        ELSE /\ app'.screen = "Connecting"
                             /\ selected_connection_type(app') = "Rdp"
                             /\ app'.connected_server = Some(t)
                             /\ app'.connected_vpn = Some(srv.vpn)
                             /\ Len(app'.calls) = 1
                             /\ app'.calls[1].op = "connectVPN"
                             /\ app'.calls[1].arg = srv.vpn]_vars
    /\ []((entry = "tui" /\ app.connected_server.some
             /\ app.connected_server.val < Len(app.servers)
             /\ ~has_ssh(app.servers[app.connected_server.val + 1]))
            => selected_connection_type(app) = "Rdp")

\* reached: the session of the target without SSH is on screen Connected in
\* mode RDP, after its RDP client was launched
C20_Witness ==
    /\ entry = "tui"
    /\ app.screen = "Connected"
    /\ app.connected_server = Some(1)
    /\ ~has_ssh(app.servers[2])
    /\ selected_connection_type(app) = "Rdp"
    /\ \E i \in 1..Len(app.calls) : app.calls[i].op = "launchRDP"

(***************************************************************************)
(* C21                                                                     *)
(***************************************************************************)
\* C21: Esc on screen Connecting, whatever the status of the attempt, calls
\* disconnectVPN for the VPN of the attempt in that step, resets the status to
\* Idle and returns to ServerList; and no later tick pings or launches a
\* session for that attempt: nothing follows the disconnectVPN of an attempt.
C21_EscCancelsAttempt ==
    /\ [][\A ok \in BOOLEAN :
            (app.screen = "Connecting"
               /\ app.connection_status \in
                     {"ConnectingVpn", "WaitingForVpn", "StartingSession",
                      "Error(VPN error)", "Error(VPN connection timeout)"}
               /\ TuiKey(Key("Esc"), ok))
               => /\ app.connected_vpn.some
                  /\ app'.calls = Append(app.calls,
                                         Call("disconnectVPN", app.connected_vpn.val,
                                              disconnect_vpn(platform, ok) = "Ok"))
                  /\ ~app'.connected_vpn.some
                  /\ ~app'.connected_server.some
                  /\ app'.connection_status = "Idle"
                  /\ app'.screen = "ServerList"]_vars
    /\ [](entry = "tui"
            => \A i \in AppDisconnects : i = Len(app.calls))

\* reached: Esc was pressed in StartingSession, after the ping was answered
\* and before the tick that launches the session
C21_Witness ==
    /\ entry = "tui"
    /\ app.screen = "ServerList"
    /\ app.connection_status = "Idle"
    /\ Len(app.calls) = 3
    /\ app.calls[2] = Call("ping", <<"q">>, TRUE)
    /\ app.calls[3].op = "disconnectVPN"

(***************************************************************************)
(* C22                                                                     *)
(***************************************************************************)
\* C22: a launch error is surfaced by the controller.  Once launchRDP has
\* failed in an attempt and until the user ends it, the status is an Error
\* and the controller is neither on screen Connected nor in status Connected.
C22_LaunchErrorSurfaced ==
    ( /\ entry = "tui"
      /\ \E i \in 1..Len(app.calls) :
            app.calls[i].op = "launchRDP" /\ ~app.calls[i].ok
      /\ AppDisconnects = {} )
       => /\ app.connection_status \in
               {"Error(VPN error)", "Error(VPN connection timeout)"}
          /\ app.connection_status # "Connected"
          /\ app.screen # "Connected"

(***************************************************************************)
(* C23                                                                     *)
(***************************************************************************)
\* C23: the VPN wait timeout of the controller is not fatal.  A tick in
\* WaitingForVpn whose ping is not answered and that ends after vpn_timeout
\* moves the attempt to StartingSession, and no attempt is ever left in the
\* status Error(VPN connection timeout).
C23_TimeoutProceeds ==
    /\ [][\A now \in 0..(TuiVpnTimeout + 1), av \in TuiAvail :
            (app.connection_status = "WaitingForVpn"
               /\ now > settings.vpn_timeout_secs
               /\ TuiTick(FALSE, now, av))
               => app'.connection_status = "StartingSession"]_vars
    /\ [](entry = "tui" => app.connection_status # "Error(VPN connection timeout)")

(***************************************************************************)
(* C24                                                                     *)
(***************************************************************************)
\* C24: the controller is in status Connected only after the sessions of the
\* selected mode were launched: launchRDP was called for modes RDP and BOTH,
\* launchSSH for modes SSH and BOTH.
C24_ConnectedOnlyAfterLaunch ==
    (entry = "tui" /\ app.connection_status = "Connected")
       => /\ selected_connection_type(app) \in {"Rdp", "Both"}
               => \E i \in 1..Len(app.calls) : app.calls[i].op = "launchRDP"
          /\ selected_connection_type(app) \in {"Ssh", "Both"}
               => \E i \in 1..Len(app.calls) : app.calls[i].op = "launchSSH"

(***************************************************************************)
(* C25                                                                     *)
(***************************************************************************)
\* the key answers No on the dialog: 'n', 'N', Esc, or Enter with No selected
AnswersNo(key) ==
    \/ key \in {Char("n"), Char("N"), Key("Esc")}
    \/ key = Key("Enter") /\ app.confirm_selection = 0

\* the key answers Yes: 'y', 'Y', or Enter with Yes selected
AnswersYes(key) ==
    \/ key \in {Char("y"), Char("Y")}
    \/ key = Key("Enter") /\ app.confirm_selection = 1

\* C25: answering No or Esc on a Confirm dialog discards the pending action:
\* catalog, session state and VPN are unchanged, no platform call is made, the
\* pending action is cleared and the controller is back on the screen the
\* dialog was opened from, never on Confirm.  Answering Yes executes the
\* pending action: the server is deleted, or the session is disconnected, or
\* the session is disconnected and the controller quits.
C25_ConfirmDialog ==
    [][\A key \in {Char("n"), Char("N"), Char("y"), Char("Y"), Key("Esc"), Key("Enter")},
          ok \in BOOLEAN :
          (app.screen = "Confirm" /\ app.confirm_action.some /\ TuiKey(key, ok))
             => /\ ~app'.confirm_action.some
                /\ AnswersNo(key)
                     => /\ app'.screen # "Confirm"
                        /\ app'.servers = app.servers
                        /\ app'.selected_server = app.selected_server
                        /\ app'.connected_vpn = app.connected_vpn
                        /\ app'.connected_server = app.connected_server
                        /\ app'.connection_status = app.connection_status
                        /\ app'.calls = app.calls
                        /\ app'.should_quit = app.should_quit
                        /\ app.prev_screen.some /\ app'.screen = app.prev_screen.val
                /\ (AnswersYes(key) /\ app.confirm_action.kind = "DeleteServer")
                     => /\ app'.servers = RemoveAt(app.servers, app.confirm_action.index)
                        /\ app'.calls = app.calls
                /\ (AnswersYes(key) /\ app.confirm_action.kind # "DeleteServer")
                     => /\ app'.servers = app.servers
                        /\ ~app'.connected_vpn.some
                        /\ app'.connection_status = "Idle"
                        /\ app'.should_quit = (app.confirm_action.kind = "Quit")]_vars

(***************************************************************************)
(* C26                                                                     *)
(***************************************************************************)
\* C26: Ctrl+C is a global force-quit.  On any screen the step that handles it
\* runs the teardown if a session is active, disconnectVPN for its VPN, and
\* sets should_quit.
C26_ForceQuit ==
    [][\A ok \in BOOLEAN :
          TuiKey(CtrlC, ok)
             => /\ app'.should_quit
                /\ ~app'.connected_vpn.some
                /\ app.connected_vpn.some
                     => app'.calls = Append(app.calls,
                                            Call("disconnectVPN", app.connected_vpn.val,
                                                 disconnect_vpn(platform, ok) = "Ok"))]_vars

(***************************************************************************)
(* C27                                                                     *)
(***************************************************************************)
\* C27: navigation wraps circularly on ServerList, ConnectionTypeSelect and
\* the scrollable panels Help and Settings.  On each of these screens
\* select_previous undoes select_next and select_next undoes select_previous
\* (from the first item, previous is the last and next of the last is the
\* first); on the lists, next of the last item is the first and previous of
\* the first is the last; on an empty server list both change nothing.
C27_NavigationWraps ==
    (entry = "tui"
       /\ app.screen \in {"ServerList", "ConnectionTypeSelect", "Help", "Settings"})
       => /\ select_previous(select_next(app)) = app
          /\ select_next(select_previous(app)) = app
          /\ (app.screen = "ServerList" /\ app.servers = <<>>)
               => (select_next(app) = app /\ select_previous(app) = app)
          /\ (app.screen = "ServerList" /\ app.servers # <<>>)
               => /\ app.selected_server = Len(app.servers) - 1
                       => select_next(app).selected_server = 0
                  /\ app.selected_server = 0
                       => select_previous(app).selected_server = Len(app.servers) - 1
          /\ app.screen = "ConnectionTypeSelect"
               => LET n == Len(available_connection_types(app))
                  IN /\ app.selected_conn_type = n - 1
                          => select_next(app).selected_conn_type = 0
                     /\ app.selected_conn_type = 0
                          => select_previous(app).selected_conn_type = n - 1

(***************************************************************************)
(* C28                                                                     *)
(***************************************************************************)
\* C28: committing the EditServer form validates the input, so that after any
\* sequence of add and edit operations every server of the catalog has a
\* non-empty name, RDP address and VPN name.
C28_CatalogServersValid ==
    entry = "tui"
       => \A i \in 1..Len(app.servers) :
             /\ app.servers[i].name # <<>>
             /\ app.servers[i].rdp # <<>>
             /\ app.servers[i].vpn # <<>>

(***************************************************************************)
(* C29                                                                     *)
(***************************************************************************)
\* C29: the catalog is never mutated during an active session.  In no step
\* taken while connected_vpn is set, from start_connection to the disconnect,
\* is a server added, updated or deleted; and while connected_vpn is set the
\* controller is neither on the EditServer form nor on a delete dialog.
C29_CatalogFrozenInSession ==
    /\ [][(entry = "tui" /\ app.connected_vpn.some)
             => app'.servers = app.servers]_vars
    /\ []((entry = "tui" /\ app.connected_vpn.some)
             => /\ app.screen # "EditServer"
                /\ ~(app.confirm_action.some /\ app.confirm_action.kind = "DeleteServer"))

\* reached: a session on a server that was added through the form, after a
\* server of the initial catalog was deleted
C29_Witness ==
    /\ entry = "tui"
    /\ app.connected_vpn.some
    /\ app.connection_status = "Connected"
    /\ Len(app.servers) = 2
    /\ app.servers[1] = TuiServers[2]
    /\ app.servers[2] # TuiServers[2]
    /\ app.connected_server = Some(1)

(***************************************************************************)
(* C30                                                                     *)
(***************************************************************************)
\* the pings check_host_reachable has made for the SSH host
SshChecks ==
    IF ssh_ip(server).some
    THEN {i \in CallIdx("ping") : calls[i].arg = ssh_ip(server).val}
    ELSE {}

\* connect() has returned from a Both attempt in which the RDP client was
\* launched and the SSH host answered no ping
RdpUpSshDown ==
    /\ mode = "Both"
    /\ ret \in ConnectOutcomes
    /\ \E l \in CallIdx("launchRDP") : calls[l].ok
    /\ SshChecks # {}
    /\ \A i \in SshChecks : ~calls[i].ok

\* C30: in Both mode, when the RDP client was launched and the SSH host is
\* unreachable, launchSSH is not invoked, connect() returns only after the
\* wait for the RDP client has returned, and the result is success.
C30_SshDownStillWaitsRdp ==
    RdpUpSshDown
       => /\ Count("launchSSH") = 0
          /\ ret = "Ok"
          /\ ~rdp_running
          /\ \E w \in CallIdx("waitRDP") :
                /\ \A l \in CallIdx("launchRDP") : l < w
                /\ \A i \in SshChecks : i < w

\* reached: a finished Both attempt with the RDP client launched and waited
\* for, and every one of at least two pings of the SSH host unanswered
C30_Witness ==
    /\ RdpUpSshDown
    /\ pc = "done"
    /\ ~shutdown
    /\ settings.ping_retries >= 2
    /\ Cardinality(SshChecks) = settings.ping_retries
    /\ Count("waitRDP") = 1
    /\ Count("disconnectVPN") = 1

(***************************************************************************)
(* C31                                                                     *)
(***************************************************************************)
\* C31: the SSH host of the selected server is everything after the first '@'
\* of its SSH target string, also when the string holds several '@'; there is
\* none when the string has no '@' or SSH is absent or empty; and the pings of
\* start_ssh's reachability check go to that host.
C31_SshHostIsSuffix ==
    LET s      == server.ssh
        suffix == SubSeq(s.val, Min(AtPositions(s.val)) + 1, Len(s.val))
    IN /\ IF s.some /\ s.val # <<>> /\ AtPositions(s.val) # {}
          THEN ssh_ip(server) = Some(suffix)
          ELSE ~ssh_ip(server).some
       /\ chr_for = "ssh"
            => \A i \in CallIdx("ping") : i > chr_start => calls[i].arg = suffix

(***************************************************************************)
(* C32                                                                     *)
(***************************************************************************)
\* C32: launchRDP tries the clients in a fixed order, on Unix xfreerdp, then
\* xfreerdp3, then rdesktop (on Windows mstsc.exe alone): the client started
\* is the first of them that can be spawned, one launchRDP call is recorded
\* and at most one client runs; the result is LaunchError only when none of
\* them can be spawned.
C32_RdpClientPreference ==
    /\ [][\A av \in SUBSET RdpPrograms :
            (pc = "rdp_launch" /\ RdpLaunch(av))
               => LET expected ==
                        IF platform = "unix"
                        THEN IF "xfreerdp" \in av THEN "xfreerdp"
                             ELSE IF "xfreerdp3" \in av THEN "xfreerdp3"
                             ELSE IF "rdesktop" \in av THEN "rdesktop"
                             ELSE "none"
                        ELSE IF "mstsc.exe" \in av THEN "mstsc.exe" ELSE "none"
                  IN /\ Len(calls') = Len(calls) + 1
                     /\ calls'[Len(calls')].op = "launchRDP"
                     /\ calls'[Len(calls')].ok = (expected # "none")
                     /\ IF expected # "none"
                        THEN /\ rdp_client' = expected
                             /\ rdp_running'
                             /\ ret' = ret
                        ELSE /\ ret' = "LaunchError"
                             /\ rdp_client' = "none"
                             /\ ~rdp_running']_vars
    /\ [](Count("launchRDP") <= 1)

\* reached: on Unix xfreerdp could not be spawned and xfreerdp3 was started
C32_Witness ==
    /\ platform = "unix"
    /\ rdp_client = "xfreerdp3"
    /\ rdp_running
    /\ \E i \in CallIdx("launchRDP") : calls[i].ok

(***************************************************************************)
(* C33                                                                     *)
(***************************************************************************)
\* C33: direct_connect resolves its server reference as a 1-based index or a
\* case-insensitive exact name.  When the arguments are accepted, a reference
\* that equals, ignoring case, the name of a catalog server selects a server
\* of that name, also when the name is made of digits only; and a reference
\* that is a valid index n selects the n-th server.
C33_ReferenceResolution ==
    [][\A r \in ServerRefs, t \in ConnTypeStrs :
          (entry = "direct" /\ pc = "start" /\ DirectConnect(r, t) /\ pc' = "connect")
             => /\ (\E i \in 1..Len(Servers) :
                       ToLowercase(Servers[i].name) = ToLowercase(r))
                     => ToLowercase(server'.name) = ToLowercase(r)
                /\ (ParseUsize(r).some /\ ParseUsize(r).val \in 1..Len(Servers))
                     => server' = Servers[ParseUsize(r).val]]_vars

(***************************************************************************)
(* C34                                                                     *)
(***************************************************************************)
\* C34: 'S' on ServerList is the quick SSH connect.  With a server with SSH
\* selected it starts a connection attempt for that server in mode SSH; with
\* a server without SSH selected it changes nothing.
C34_QuickSsh ==
    [][\A ok \in BOOLEAN :
          (app.screen = "ServerList" /\ current_server(app).some
             /\ TuiKey(Char("S"), ok))
             => IF has_ssh(current_server(app).val)
                THEN /\ app'.screen = "Connecting"
                     /\ app'.connected_server = Some(app.selected_server)
                     /\ app'.connected_vpn = Some(current_server(app).val.vpn)
                     /\ selected_connection_type(app') = "Ssh"
                ELSE app' = app]_vars

(***************************************************************************)
(* C35                                                                     *)
(***************************************************************************)
\* C35: the delete key on a non-empty catalog opens the dialog for the
\* selected server and on an empty catalog does nothing; confirming the
\* dialog removes exactly that server, keeps the others in their order, and
\* leaves selected_server on an existing entry, or 0 when the catalog became
\* empty.
C35_DeleteRemovesSelected ==
    /\ [][(app.screen = "ServerList" /\ TuiKey(Char("d"), TRUE))
            => IF app.servers = <<>>
               THEN app' = app
               ELSE /\ app'.servers = app.servers
                    /\ app'.screen = "Confirm"
                    /\ app'.confirm_action =
                          Action("DeleteServer", app.selected_server)]_vars
    /\ [][(app.screen = "Confirm" /\ app.confirm_action.some
             /\ app.confirm_action.kind = "DeleteServer"
             /\ TuiKey(Char("y"), TRUE))
            => LET k == app.confirm_action.index
                   n == Len(app.servers)
               IN /\ k = app.selected_server
                  /\ k < n
                  /\ Len(app'.servers) = n - 1
                  /\ \A i \in 1..(n - 1) :
                        app'.servers[i] = app.servers[IF i <= k THEN i ELSE i + 1]
                  /\ IF n = 1 THEN app'.selected_server = 0
                     ELSE app'.selected_server < n - 1
                  /\ ~app'.panicked]_vars

\* reached: the second of three servers was deleted, the first and the added
\* third one remain in this order
C35_Witness ==
    /\ entry = "tui"
    /\ app.screen = "ServerList"
    /\ Len(app.servers) = 2
    /\ app.servers[1] = TuiServers[1]
    /\ app.servers[2].name = <<"x">>
    /\ app.selected_server = 1
    /\ app.confirm_selection = 1

(***************************************************************************)
(* C36                                                                     *)
(***************************************************************************)
\* The edit form holds the selected server as it is in the catalog: the four
\* fields, with the input buffer standing for the field being edited, are the
\* server's name, RDP address, SSH string (empty when it has none) and VPN.
FormUntouched(a) ==
    /\ a.screen = "EditServer"
    /\ a.edit_mode
    /\ current_server(a).some
    /\ LET f   == save_current_field(a).edit_server_fields
           srv == current_server(a).val
       IN /\ f.name = srv.name
          /\ f.rdp = srv.rdp
          /\ f.ssh = (IF srv.ssh.some THEN srv.ssh.val ELSE <<>>)
          /\ f.vpn = srv.vpn

\* C36: the edit key opens the form on the selected server with the server's
\* own values; committing a field of an untouched form leaves the form
\* untouched on the next field, and committing the fourth one leaves the
\* catalog with the same length and, for every server, the same name, RDP
\* address, VPN, SSH capability and SSH string; Esc on the form, at any field
\* and whatever was typed, leaves the catalog unchanged.
C36_EditRoundTrip ==
    /\ [][(app.screen = "ServerList" /\ current_server(app).some
             /\ TuiKey(Char("e"), TRUE))
            => /\ FormUntouched(app')
               /\ app'.edit_field_index = 0
               /\ app'.servers = app.servers
               /\ app'.selected_server = app.selected_server]_vars
    /\ [][(FormUntouched(app) /\ TuiKey(Key("Enter"), TRUE))
            => /\ Len(app'.servers) = Len(app.servers)
               /\ \A i \in 1..Len(app.servers) :
                     /\ app'.servers[i].name = app.servers[i].name
                     /\ app'.servers[i].rdp = app.servers[i].rdp
                     /\ app'.servers[i].vpn = app.servers[i].vpn
                     /\ has_ssh(app'.servers[i]) = has_ssh(app.servers[i])
                     /\ ssh_string(app'.servers[i]) = ssh_string(app.servers[i])
               /\ app'.selected_server = app.selected_server
               /\ IF app.edit_field_index < 3
                  THEN /\ FormUntouched(app')
                       /\ app'.edit_field_index = app.edit_field_index + 1
                  ELSE app'.screen = "ServerList"]_vars
    /\ [][(app.screen = "EditServer" /\ TuiKey(Key("Esc"), TRUE))
            => /\ app'.servers = app.servers
               /\ app'.screen # "EditServer"]_vars

\* reached: the second server was opened in the form and its four fields
\* committed; the catalog is the initial one
C36_Witness ==
    /\ entry = "tui"
    /\ app.screen = "ServerList"
    /\ app.prev_screen = Some("EditServer")
    /\ app.edit_mode
    /\ app.edit_field_index = 3
    /\ app.selected_server = 1
    /\ app.servers = TuiServers
    /\ app.edit_server_fields.name = TuiServers[2].name
    /\ app.edit_server_fields.vpn = TuiServers[2].vpn

(***************************************************************************)
(* C37                                                                     *)
(***************************************************************************)
\* C37: in every reachable state of the running controller (it has not been
\* asked to quit and is not dropped), the Connected screen is
\* shown only with the connection status Connected and a recorded session
\* (connected_vpn and connected_server both set), and connected_vpn is set
\* exactly when connected_server is set.
C37_ScreenAgreesWithSession ==
    (pc = "tui_loop" /\ ~app.should_quit)
      => /\ app.screen = "Connected"
              => /\ app.connection_status = "Connected"
                 /\ app.connected_vpn.some
                 /\ app.connected_server.some
         /\ app.connected_vpn.some <=> app.connected_server.some

(***************************************************************************)
(* C38                                                                     *)
(***************************************************************************)
\* C38: a tick while the screen is Confirm leaves the screen on Confirm and
\* the pending confirm_action as it is; and in every state of the running
\* controller a pending confirm_action is on the Confirm screen.
C38_ConfirmLeftOnlyByAnswer ==
    /\ [][\A ok \in BOOLEAN, now \in TickTimes, av \in TuiAvail :
            (app.screen = "Confirm" /\ TuiTick(ok, now, av))
              => /\ app'.screen = "Confirm"
                 /\ app'.confirm_action = app.confirm_action]_vars
    /\ [](pc = "tui_loop" /\ app.confirm_action.some => app.screen = "Confirm")

(***************************************************************************)
(* C39                                                                     *)
(***************************************************************************)
\* C39: in every reachable state, selected_server is below the catalog length
\* when the catalog is not empty, the index of a pending DeleteServer is a
\* catalog index, the edit form in edit mode stands on a catalog index, and no
\* access outside the catalog has happened.
C39_IndexValidity ==
    /\ ~app.panicked
    /\ app.servers # <<>> => app.selected_server < Len(app.servers)
    /\ (app.confirm_action.some /\ app.confirm_action.kind = "DeleteServer")
         => app.confirm_action.index < Len(app.servers)
    /\ (app.screen = "EditServer" /\ app.edit_mode)
         => app.selected_server < Len(app.servers)

\* reached: the third server, added through the form, was picked by its
\* number and the delete dialog is open on it
C39_Witness ==
    /\ entry = "tui"
    /\ Len(app.servers) = 3
    /\ app.screen = "Confirm"
    /\ app.confirm_action = Action("DeleteServer", 2)
    /\ app.selected_server = 2
    /\ \E i \in 1..Len(app.calls) : app.calls[i].op = "connectVPN"

(***************************************************************************)
(* C40                                                                     *)
(***************************************************************************)
\* C40: in every state of the running controller where connected_server is
\* Some(i), selected_server is i, i is a catalog index, and connected_vpn
\* holds the VPN name of the catalog entry at i; so the ping and the launch
\* of a tick, which go to current_server, go to the server whose VPN was
\* connected.
C40_TickTargetsSessionServer ==
    (pc = "tui_loop" /\ app.connected_server.some)
      => /\ app.selected_server = app.connected_server.val
         /\ app.connected_server.val < Len(app.servers)
         /\ app.connected_vpn = Some(app.servers[app.connected_server.val + 1].vpn)
         /\ \A i \in 1..Len(app.calls) :
               app.calls[i].op \in {"ping", "launchRDP"}
                 => app.calls[i].arg = app.servers[app.connected_server.val + 1].rdp

\* reached: a session on the second server, whose VPN is the connected one,
\* was pinged and its client launched
C40_Witness ==
    /\ entry = "tui"
    /\ pc = "tui_loop"
    /\ app.connected_server = Some(1)
    /\ app.connected_vpn = Some(TuiServers[2].vpn)
    /\ app.connection_status = "Connected"
    /\ \E i \in 1..Len(app.calls) :
          app.calls[i] = Call("launchRDP", TuiServers[2].rdp, TRUE)

====
